---------------------------- MODULE Spec2Model ----------------------------
(***************************************************************************)
(* A model of the free-outernet receiver: the OP defragmenter and the LDP  *)
(* parser and router of protocols.py, the file service of files.py and the *)
(* two ingestion loops (free-outernet.py, outernet_kiss_file.py).          *)
(*                                                                         *)
(* Byte strings are sequences of integers 0..255.  Python's None is the    *)
(* value None below, distinct from every byte string.  An uncaught Python  *)
(* exception ends the process (aborted); a loop that never exits leaves it *)
(* stuck for ever (hung).                                                  *)
(***************************************************************************)
EXTENDS Integers, Sequences, FiniteSets, TLC

VARIABLES
    files,      \* FileService.__files: file id -> File object
    last_file,  \* FileService.__last_file: a reference to a File object
    written,    \* what __try_reconstruct wrote under the output directory
    pending,    \* OPDefragmenter.__pending: carousel id -> PartialLDP
    ret,        \* what the last call of OPDefragmenter.push returned
    sending,    \* the datagram whose shares are being delivered, and the
                \* shares pushed and values returned since its first share
    l4,         \* a datagram handed to LDP(), and what LDP() made of it
    frontend,   \* the program that runs: free-outernet.py or
                \* outernet_kiss_file.py
    outcome,    \* what became of the last frame in the ingestion loop
    aborted,    \* an exception left the ingestion loop: the process is gone
    hung,       \* a loop of the program never exits
    tried,      \* the calls of File.reconstruct made for the last packet:
                \* file id and how the call ended
    deframer,   \* the KISSDeframer object: its __pdu and __transpose
    stream,     \* the KISS stream being read: the frames it was made of,
                \* the bytes pushed, those still to push, the frames returned
    handled     \* number of packets handled so far (bounds the exploration)

vars == <<files, last_file, written, pending, ret, sending, l4, frontend,
          outcome, aborted, hung, tried, deframer, stream, handled>>

---------------------------------------------------------------------------
(* Python values *)

\* None: no byte is negative, so None differs from every bytes value
None == <<-1>>

\* `not x` for x that is None or a bytes value
Falsy(x) == x = None \/ x = <<>>

\* x in list
InSeq(x, s) == \E i \in 1..Len(s) : s[i] = x

\* list.count(None)
CountNone(s) == Cardinality({i \in 1..Len(s) : s[i] = None})

Min(a, b) == IF a <= b THEN a ELSE b

\* s[a:b] on bytes and lists, for 0 <= a
Slice(s, a, b) == SubSeq(s, a + 1, Min(b, Len(s)))

\* s[a:]
SliceFrom(s, a) == SubSeq(s, a + 1, Len(s))

\* b'\xff' * n (and [x] * n)
Repeat(x, n) == [i \in 1..n |-> x]

RECURSIVE Join(_)
\* bytes().join(list of bytes)
Join(s) == IF s = <<>> THEN <<>> ELSE Head(s) \o Join(Tail(s))

RECURSIVE BitXor(_, _)
\* a ^ b on non-negative integers
BitXor(a, b) ==
    IF a = 0 THEN b
    ELSE IF b = 0 THEN a
    ELSE ((a + b) % 2) + 2 * BitXor(a \div 2, b \div 2)

RECURSIVE BE(_)
\* struct.unpack of a big-endian unsigned integer
BE(bytes) ==
    IF bytes = <<>> THEN 0
    ELSE 256 * BE(SubSeq(bytes, 1, Len(bytes) - 1)) + bytes[Len(bytes)]

\* struct.pack('>H', v) and struct.pack('>I', v), as the sender builds headers
U16(v) == <<(v \div 256) % 256, v % 256>>
U32(v) == <<(v \div 16777216) % 256, (v \div 65536) % 256, (v \div 256) % 256, v % 256>>

---------------------------------------------------------------------------
(* protocols.py: class OP and class PartialLDP *)

\* an int attribute that is None is <<>>, one that is v is <<v>>
NoInt == <<>>

\* `not x` for an int attribute
FalsyInt(x) == x = <<>> \/ x = <<0>>

\* OP.__header_len
op_header_len == 5

\* OP.__init__: ValueError on fewer than 5 bytes; the payload is
\* data[5 : 5 + length - 4], cut short when the buffer ends before
OP(data) ==
    IF Len(data) < op_header_len THEN [raised |-> TRUE]
    ELSE [raised |-> FALSE,
          length |-> data[1],
          fragment_type |-> data[2],
          carousel_id |-> data[3],
          last_fragment |-> data[4],
          fragment_index |-> data[5],
          payload |-> Slice(data, op_header_len, op_header_len + data[1] - 4)]

\* PartialLDP.reset: the state of a new PartialLDP
FreshLDP ==
    [fragments |-> <<>>, frag_recv |-> 0, fec_recv |-> 0, frag_size |-> NoInt,
     frag_count |-> NoInt, fec_count |-> NoInt, next_index |-> 0]

\* self.__fragments[index] = payload on the dict, a function from the share
\* numbers it holds
PutFragment(fragments, index, payload) ==
    [i \in DOMAIN fragments \cup {index} |->
        IF i = index THEN payload ELSE fragments[i]]

\* PartialLDP.push_data
push_data(ldp, index, payload) ==
    IF index \in DOMAIN ldp.fragments THEN ldp
    ELSE [ldp EXCEPT !.fragments = PutFragment(@, index, payload),
                     !.frag_recv = @ + 1]

\* push_fec that stores nothing
push_fec_Dropped(ldp, index, payload) == ldp

\* PartialLDP.push_fec
ldp_push_fec(ldp, index, payload) ==
    IF FalsyInt(ldp.frag_count) THEN ldp
    ELSE IF (ldp.frag_count[1] + index) \in DOMAIN ldp.fragments THEN ldp
    ELSE [ldp EXCEPT
            !.fragments = PutFragment(@, ldp.frag_count[1] + index, payload),
            !.fec_recv = @ + 1]

\* PartialLDP.complete
complete(ldp) ==
    /\ ~FalsyInt(ldp.frag_count)
    /\ ldp.fec_recv + ldp.frag_recv >= ldp.frag_count[1]

\* The shares of the datagrams the ground station sends in this model.  A
\* datagram is named by its generation g and its number k of data fragments;
\* share s of it is data fragment s for s < k and FEC fragment s - k
\* otherwise.  Every share is one byte that names the datagram and s, so
\* that an output shows which shares it was built from.
Share(g, k, s) == <<64 * g + 8 * k + s>>

\* the L4 bytes of datagram (g, k): its data fragments in index order
Payload(g, k) == [s \in 1..k |-> 64 * g + 8 * k + (s - 1)]

\* zfec.Decoder(k, n).decode(shares, sharenums), by the contract of a
\* systematic erasure code: zfec itself is the library's.  It raises unless
\* 1 <= k <= n <= 256, every share number is below n and all shares have one
\* length.  From k shares of one codeword it returns the k data shares; from
\* any other k shares it returns the data shares it was given and, for the
\* missing ones, bytes that belong to no datagram.
ZfecDecode(k, n, fragments) ==
    IF ~(1 <= k /\ k <= n /\ n <= 256) THEN [raised |-> TRUE]
    ELSE IF \E s \in DOMAIN fragments : s >= n THEN [raised |-> TRUE]
    ELSE IF \E s, t \in DOMAIN fragments : Len(fragments[s]) # Len(fragments[t])
         THEN [raised |-> TRUE]
    ELSE IF \E g \in 0..3 :
              \A s \in DOMAIN fragments : fragments[s] = Share(g, k, s)
         THEN [raised |-> FALSE,
               blocks |-> [i \in 1..k |->
                   Share(CHOOSE g \in 0..3 : \A s \in DOMAIN fragments :
                             fragments[s] = Share(g, k, s),
                         k, i - 1)]]
    ELSE [raised |-> FALSE,
          blocks |-> [i \in 1..k |->
              IF (i - 1) \in DOMAIN fragments THEN fragments[i - 1]
              ELSE LET s == CHOOSE t \in DOMAIN fragments : TRUE
                   IN  Repeat(255, Len(fragments[s]))]]

\* PartialLDP.decode: the datagram, None (`return` after the error message)
\* or an exception: KeyError when a data fragment below frag_count is not
\* there, TypeError on `k + None`, zfec's own errors
decode(ldp) ==
    LET k == ldp.frag_count[1]
    IN  IF ldp.frag_recv = k
        THEN IF \A i \in 0..(k - 1) : i \in DOMAIN ldp.fragments
             THEN [raised |-> FALSE,
                   value |-> Join([i \in 1..k |-> ldp.fragments[i - 1]])]
             ELSE [raised |-> TRUE, value |-> None]
        ELSE IF ldp.fec_count = NoInt THEN [raised |-> TRUE, value |-> None]
        ELSE IF ~(1 <= k /\ k + ldp.fec_count[1] <= 256)
             THEN [raised |-> TRUE, value |-> None]
        ELSE IF Cardinality(DOMAIN ldp.fragments) # k
             THEN [raised |-> FALSE, value |-> None]
        ELSE LET d == ZfecDecode(k, k + ldp.fec_count[1], ldp.fragments)
             IN  IF d.raised THEN [raised |-> TRUE, value |-> None]
                 ELSE [raised |-> FALSE, value |-> Join(d.blocks)]

---------------------------------------------------------------------------
(* protocols.py: class OPDefragmenter *)

\* the values of OP.fragment_type the defragmenter knows
FragLast == 60
FragData == 195
FragFec == 105

\* self.__pending.get(packet.carousel_id), a new PartialLDP when there is none
PendingGet(pend, carousel_id) ==
    IF carousel_id \in DOMAIN pend THEN pend[carousel_id] ELSE FreshLDP

\* a map that keeps the partial of one carousel only
PendingSet_Single(pend, carousel_id, ldp) ==
    [c \in {carousel_id} |-> ldp]

PendingSet(pend, carousel_id, ldp) ==
    [c \in DOMAIN pend \cup {carousel_id} |->
        IF c = carousel_id THEN ldp ELSE pend[c]]

\* what push hands back: the defragmenter after the call, the value returned
\* (None or bytes) and whether an exception left the call instead
Pushed(pend, carousel_id, ldp, value) ==
    [pending |-> PendingSet(pend, carousel_id, ldp), ret |-> value,
     raised |-> FALSE]

PushRaised(pend) == [pending |-> pend, ret |-> None, raised |-> TRUE]

\* decoded = ldp.decode(); ldp.reset(); return decoded
PushDecoded(pend, carousel_id, d) ==
    IF d.raised THEN PushRaised(pend)
    ELSE Pushed(pend, carousel_id, FreshLDP, d.value)

\* lines 160-167: reset on an index that goes back, latch frag_size and
\* frag_count, store the fragment
DataStore(ldp, packet) ==
    push_data(
        [ldp EXCEPT
            !.frag_size = IF FalsyInt(@) THEN <<packet.length - 4>> ELSE @,
            !.frag_count = IF FalsyInt(@) THEN <<packet.last_fragment + 1>>
                           ELSE @,
            !.next_index = packet.fragment_index + 1],
        packet.fragment_index, packet.payload)

\* DataAfterReset without the reset of line 161
DataAfterReset_NoReset(ldp, packet) == DataStore(ldp, packet)

DataAfterReset(ldp, packet) ==
    IF packet.fragment_index < ldp.next_index THEN DataStore(FreshLDP, packet)
    ELSE DataStore(ldp, packet)

\* DataStored without the reset of line 170
DataStored_NoReset(pend, packet, ldp) ==
    IF packet.fragment_type = FragLast /\ complete(ldp)
    THEN IF decode(ldp).raised THEN PushRaised(pend)
         ELSE Pushed(pend, packet.carousel_id, ldp, decode(ldp).value)
    ELSE Pushed(pend, packet.carousel_id, ldp, None)

\* lines 168-171
DataStored(pend, packet, ldp) ==
    IF packet.fragment_type = FragLast /\ complete(ldp)
    THEN PushDecoded(pend, packet.carousel_id, decode(ldp))
    ELSE Pushed(pend, packet.carousel_id, ldp, None)

\* lines 175-177
FecStore(ldp, packet) ==
    ldp_push_fec(
        [ldp EXCEPT
            !.fec_count = IF FalsyInt(@) THEN <<packet.last_fragment + 1>>
                          ELSE @],
        packet.fragment_index, packet.payload)

\* lines 178-181
FecStored(pend, packet, ldp) ==
    IF complete(ldp)
    THEN PushDecoded(pend, packet.carousel_id, decode(ldp))
    ELSE Pushed(pend, packet.carousel_id, ldp, None)

\* OPDefragmenter.push
push(pend, packet) ==
    IF packet.fragment_type = FragLast /\ packet.fragment_index = 0
    THEN Pushed(pend, packet.carousel_id,
                PendingGet(pend, packet.carousel_id), packet.payload)
    ELSE IF packet.fragment_type \in {FragLast, FragData}
    THEN DataStored(pend, packet,
             DataAfterReset(PendingGet(pend, packet.carousel_id), packet))
    ELSE IF packet.fragment_type = FragFec
    THEN IF FalsyInt(PendingGet(pend, packet.carousel_id).frag_size)
         THEN Pushed(pend, packet.carousel_id,
                     PendingGet(pend, packet.carousel_id), None)
         ELSE FecStored(pend, packet,
                  FecStore(PendingGet(pend, packet.carousel_id), packet))
    ELSE Pushed(pend, packet.carousel_id,
                PendingGet(pend, packet.carousel_id), None)

---------------------------------------------------------------------------
(* protocols.py: class LDP *)

\* CRC-32/MPEG-2 (crcmod's 'crc-32-mpeg'): polynomial 0x04c11db7, initial
\* value 0xffffffff, bits neither reflected nor inverted at the end.  The
\* 32-bit register is the pair <<high 16 bits, low 16 bits>>.
CrcPolyHigh == 1217
CrcPolyLow == 7607
CrcInit == <<65535, 65535>>

\* one bit: shift left, subtract the polynomial when a 1 falls out
CrcShift(r) ==
    IF r[1] >= 32768
    THEN <<BitXor(((r[1] % 32768) * 2) + (r[2] \div 32768), CrcPolyHigh),
           BitXor((r[2] % 32768) * 2, CrcPolyLow)>>
    ELSE <<(r[1] * 2) + (r[2] \div 32768), (r[2] % 32768) * 2>>

\* both halves of the register are 16 bits wide
IsRegister(r) == r[1] \in 0..65535 /\ r[2] \in 0..65535

RECURSIVE CrcBits(_, _)
\* n bits.  The test of the register holds always; it makes TLC compute the
\* register step by step instead of nesting the steps
CrcBits(r, n) ==
    IF n = 0 \/ ~IsRegister(r) THEN r ELSE CrcBits(CrcShift(r), n - 1)

\* the table of the byte-wise algorithm: entry i is i << 24 after eight bits
CrcTable == [i \in 0..255 |-> CrcBits(<<i * 256, 0>>, 8)]

\* one byte: crc = table[(crc >> 24) ^ byte] ^ (crc << 8), t the table entry
CrcByte(r, t) ==
    <<BitXor(((r[1] % 256) * 256) + (r[2] \div 256), t[1]),
      BitXor((r[2] % 256) * 256, t[2])>>

RECURSIVE CrcRun(_, _, _, _)
\* crc.update(data[i:stop]) from register r
CrcRun(r, data, i, stop) ==
    IF i >= stop \/ ~IsRegister(r) THEN r
    ELSE CrcRun(CrcByte(r, CrcTable[BitXor(r[1] \div 256, data[i + 1])]),
                data, i + 1, stop)

RECURSIVE CrcUpdate(_, _, _)
\* crc.update(data[i:]) from register r, in runs of 16 bytes to keep TLC's
\* recursion shallow
CrcUpdate(r, data, i) ==
    IF i >= Len(data) \/ ~IsRegister(r) THEN r
    ELSE CrcUpdate(CrcRun(r, data, i, Min(i + 16, Len(data))), data, i + 16)

\* an always-zero checksum
Crc32Mpeg_Zero(data) == <<0, 0>>

\* PredefinedCrc('crc-32-mpeg') over data: crc.crcValue
Crc32Mpeg(data) == CrcUpdate(CrcInit, data, 0)

\* LDP.__header_len and LDP.__checksum_len
ldp_header_len == 4
ldp_checksum_len == 4

\* the payload taken up to the end of the buffer
LdpPayload_ToEnd(data, length) ==
    Slice(data, ldp_header_len, Len(data) - ldp_checksum_len)

\* data[self.__header_len : self.length - self.__checksum_len]
LdpPayload(data, length) ==
    Slice(data, ldp_header_len, length - ldp_checksum_len)

\* header & 0xffffff
LdpLength(data) == BE(Slice(data, 1, ldp_header_len))

\* LDP.__init__: the packet, or the ValueError it raises
LDP(data) ==
    IF Len(data) < ldp_header_len + ldp_checksum_len
    THEN [raised |-> TRUE, error |-> "too short"]
    ELSE IF LdpLength(data) > Len(data)
    THEN [raised |-> TRUE, error |-> "invalid length"]
    ELSE IF Crc32Mpeg(Slice(data, 0, LdpLength(data))) # <<0, 0>>
    THEN [raised |-> TRUE, error |-> "invalid checksum"]
    ELSE [raised |-> FALSE, type |-> data[1], length |-> LdpLength(data),
          payload |-> LdpPayload(data, LdpLength(data))]

---------------------------------------------------------------------------
(* files.py: the LDPC parity-check matrix of a file *)

\* File.__fec_prng: one step of the Park-Miller generator,
\* value = (7**5 * value) % (2**31 - 1), computed by Schrage's method so that
\* no intermediate value leaves the 32-bit integers
fec_prng(value) ==
    LET t == 16807 * (value % 127773) - 2836 * (value \div 127773)
    IN  IF t >= 0 THEN t ELSE t + 2147483647

RECURSIVE FirstFree(_, _, _, _)
\* the scan `while i < k * n1 and col in matrix[p_tbl[i]]: i += 1`
FirstFree(i, col, matrix, p_tbl) ==
    IF i < Len(p_tbl) /\ InSeq(col, matrix[p_tbl[i + 1] + 1])
    THEN FirstFree(i + 1, col, matrix, p_tbl)
    ELSE i

RECURSIVE DrawRow(_, _, _)
\* the rejection loop of the fallback branch: a random row without col
DrawRow(value, col, matrix) ==
    LET v == fec_prng(value)
        row == v % Len(matrix)
    IN  IF ~InSeq(col, matrix[row + 1])
        THEN [value |-> v, row |-> row]
        ELSE DrawRow(v, col, matrix)

RECURSIVE DrawSlot(_, _, _, _, _)
\* the rejection loop over the helper table: a random slot p in [t, k*n1)
\* whose row lacks col
DrawSlot(value, col, matrix, p_tbl, t) ==
    LET v == fec_prng(value)
        p == (v % (Len(p_tbl) - t)) + t
    IN  IF ~InSeq(col, matrix[p_tbl[p + 1] + 1])
        THEN [value |-> v, p |-> p]
        ELSE DrawSlot(v, col, matrix, p_tbl, t)

RECURSIVE DrawCol(_, _, _)
\* the rejection loop of the post-pass: a random column not yet in the row
DrawCol(value, row, k) ==
    LET v == fec_prng(value)
        col == v % k
    IN  IF ~InSeq(col, row)
        THEN [value |-> v, col |-> col]
        ELSE DrawCol(v, row, k)

\* one round of the double loop `for col in range(k): for h in range(n1)`.
\* A rejection loop none of whose candidates is acceptable never exits.
MatrixRound(st, col) ==
    LET i == FirstFree(st.t, col, st.matrix, st.p_tbl)
    IN  IF i >= Len(st.p_tbl)
        THEN IF \A r \in 1..Len(st.matrix) : InSeq(col, st.matrix[r])
             THEN [st EXCEPT !.hang = TRUE]
             ELSE LET d == DrawRow(st.value, col, st.matrix)
                  IN  [st EXCEPT !.value = d.value,
                                 !.matrix[d.row + 1] = Append(@, col)]
        ELSE LET d == DrawSlot(st.value, col, st.matrix, st.p_tbl, st.t)
             IN  [st EXCEPT !.value = d.value,
                            !.matrix[st.p_tbl[d.p + 1] + 1] = Append(@, col),
                            !.p_tbl[d.p + 1] = st.p_tbl[st.t + 1],
                            !.t = st.t + 1]

RECURSIVE MatrixRounds(_, _, _, _)
\* rounds s, s+1, ..., k*n1 - 1 of the double loop; round s is for column s // n1
MatrixRounds(st, s, k, n1) ==
    IF s >= k * n1 \/ st.hang THEN st
    ELSE MatrixRounds(MatrixRound(st, s \div n1), s + 1, k, n1)

\* the post-pass on one row: rows of degree 0 or 1 get up to two more columns
MatrixFixRow(st, row, k) ==
    LET degree == Len(st.matrix[row + 1])
        v1 == fec_prng(st.value)
        st1 == IF degree = 0
               THEN [st EXCEPT !.value = v1,
                               !.matrix[row + 1] = Append(@, v1 % k)]
               ELSE st
    IN  IF degree <= 1
        THEN IF \A c \in 0..(k - 1) : InSeq(c, st1.matrix[row + 1])
             THEN [st1 EXCEPT !.hang = TRUE]
             ELSE LET d == DrawCol(st1.value, st1.matrix[row + 1], k)
                  IN  [st1 EXCEPT !.value = d.value,
                                  !.matrix[row + 1] = Append(@, d.col)]
        ELSE st1

\* the post-pass left out
MatrixFixRows_Skipped(st, row, k) == st

RECURSIVE MatrixFixRows(_, _, _)
\* `for row in range(n - k)` of the post-pass, from row on
MatrixFixRows(st, row, k) ==
    IF row >= Len(st.matrix) \/ st.hang THEN st
    ELSE MatrixFixRows(MatrixFixRow(st, row, k), row + 1, k)

\* fec_init_matrix whose generator goes on from where the constructions made
\* so far have left it, instead of starting from the seed
fec_init_matrix_SharedPrng(params) ==
    MatrixFixRows(
        MatrixRounds(
            [matrix |-> [r \in 1..(params.n - params.k) |-> <<>>],
             p_tbl |-> [p \in 1..(params.k * params.N1) |->
                           (p - 1) % (params.n - params.k)],
             t |-> 0,
             value |-> params.seed
                         + Cardinality({i \in DOMAIN files :
                                           files[i].fec_matrix # <<>>}),
             hang |-> FALSE],
            0, params.k, params.N1),
        0, params.k)

\* File.__fec_init_matrix for params with k >= 1 and n > k: the rows of the
\* matrix (lists of column indices), or hang when a loop never exits
fec_init_matrix(params) ==
    LET k == params.k
        n == params.n
        n1 == params.N1
        st0 == [matrix |-> [r \in 1..(n - k) |-> <<>>],
                p_tbl |-> [p \in 1..(k * n1) |-> (p - 1) % (n - k)],
                t |-> 0,
                value |-> params.seed,
                hang |-> FALSE]
    IN  MatrixFixRows(MatrixRounds(st0, 0, k, n1), 0, k)

---------------------------------------------------------------------------
(* files.py: class File *)

HexDigits ==
    <<"0", "1", "2", "3", "4", "5", "6", "7",
      "8", "9", "a", "b", "c", "d", "e", "f">>

RECURSIVE Mix(_, _)
Mix(h, bytes) ==
    IF bytes = <<>> THEN h
    ELSE Mix((31 * h + Head(bytes) + 7) % 256, Tail(bytes))

\* hashlib.sha256(contents).hexdigest(): a digest in lower-case hex.  SHA-256
\* itself is the library's; the model keeps what the program relies on, a
\* function of the contents alone whose value is lower-case hex text (here two
\* digits of a running checksum)
Sha256Hex(contents) ==
    LET h == Mix(Len(contents), contents)
    IN  <<HexDigits[(h \div 16) + 1], HexDigits[(h % 16) + 1]>>

\* str.upper() and str.lower() on hex text
UpperDigit(c) ==
    CASE c = "a" -> "A" [] c = "b" -> "B" [] c = "c" -> "C"
      [] c = "d" -> "D" [] c = "e" -> "E" [] c = "f" -> "F"
      [] OTHER -> c

LowerDigit(c) ==
    CASE c = "A" -> "a" [] c = "B" -> "b" [] c = "C" -> "c"
      [] c = "D" -> "d" [] c = "E" -> "e" [] c = "F" -> "f"
      [] OTHER -> c

UpperHex(text) == [i \in DOMAIN text |-> UpperDigit(text[i])]
LowerHex(text) == [i \in DOMAIN text |-> LowerDigit(text[i])]

\* self.fec of a descriptor without <fec> child
NoFec == [scheme |-> "none"]

\* math.ceil(size / block_size)
CeilDiv(a, b) == (a + b - 1) \div b

\* File.__init__ on a parsed element tree `root` (see XmlParse): a child is
\* <<>> when absent and <<value>> when present.  ET.ParseError, the
\* AttributeError of `None.text` and the ZeroDivisionError of block_size 0
\* are raised to the caller.
File(root) ==
    IF ~root.ok THEN [raised |-> TRUE]
    ELSE IF \/ root.id = <<>> \/ root.path = <<>> \/ root.hash = <<>>
            \/ root.size = <<>> \/ root.block_size = <<>>
         THEN [raised |-> TRUE]
    ELSE IF root.block_size[1] = 0 THEN [raised |-> TRUE]
    ELSE [raised |-> FALSE,
          file |-> [id |-> root.id[1],
                    path |-> root.path[1],
                    hash |-> root.hash[1],
                    size |-> root.size[1],
                    block_size |-> root.block_size[1],
                    blocks |-> CeilDiv(root.size[1], root.block_size[1]),
                    fec |-> IF root.fec = <<>> THEN NoFec ELSE root.fec[1],
                    fec_matrix |-> <<>>,
                    data |-> Repeat(None, CeilDiv(root.size[1], root.block_size[1])),
                    fec_blocks |-> <<>>]]

\* push_block that adds the block to what a filled slot holds
push_block_Append(f, block, n) ==
    IF n >= Len(f.data) THEN [raised |-> TRUE, file |-> f]
    ELSE IF Falsy(f.data[n + 1])
         THEN [raised |-> FALSE, file |-> [f EXCEPT !.data[n + 1] = block]]
         ELSE [raised |-> FALSE, file |-> [f EXCEPT !.data[n + 1] = @ \o block]]

\* File.push_block: IndexError when n is no slot; a slot holding None or b''
\* takes the block, any other slot keeps what it has
push_block(f, block, n) ==
    IF n >= Len(f.data) THEN [raised |-> TRUE, file |-> f]
    ELSE IF Falsy(f.data[n + 1])
         THEN [raised |-> FALSE, file |-> [f EXCEPT !.data[n + 1] = block]]
         ELSE [raised |-> FALSE, file |-> f]

\* push_fec that keeps the block a slot already holds
push_fec_FirstWins(f, block, n) ==
    LET grown == IF Len(f.fec_blocks) <= n
                 THEN f.fec_blocks \o Repeat(None, n - Len(f.fec_blocks) + 1)
                 ELSE f.fec_blocks
    IN  IF Falsy(grown[n + 1])
        THEN [f EXCEPT !.fec_blocks = [grown EXCEPT ![n + 1] = block]]
        ELSE [f EXCEPT !.fec_blocks = grown]

\* File.push_fec: the list grows with None up to slot n, which takes the block
push_fec(f, block, n) ==
    LET grown == IF Len(f.fec_blocks) <= n
                 THEN f.fec_blocks \o Repeat(None, n - Len(f.fec_blocks) + 1)
                 ELSE f.fec_blocks
    IN  [f EXCEPT !.fec_blocks = [grown EXCEPT ![n + 1] = block]]

\* File.maybe_reconstructable
maybe_reconstructable(f) ==
    LET blocks_received == f.blocks - CountNone(f.data)
        fec_received == IF f.fec # NoFec
                        THEN Len(f.fec_blocks) - CountNone(f.fec_blocks)
                        ELSE 0
    IN  blocks_received + fec_received >= f.blocks

\* File.reconstructable
reconstructable(f) == CountNone(f.data) = 0

\* the padded symbol of data block `index` in the XOR of a row
Symbol(f, index) ==
    LET unpadded_size == Min(f.block_size, f.size - f.block_size * index)
    IN  Slice(f.data[index + 1], 0, unpadded_size)
            \o Repeat(255, f.block_size - unpadded_size)

RECURSIVE XorRow(_, _, _, _)
\* `for index in row: if index != missing_index: accum = accum ^ symbol`;
\* accum[i] ^ symbol[i] raises IndexError when the symbol is shorter than accum
XorRow(f, row, missing_index, accum) ==
    IF row = <<>> THEN [raised |-> FALSE, accum |-> accum]
    ELSE IF Head(row) = missing_index
         THEN XorRow(f, Tail(row), missing_index, accum)
    ELSE LET symbol == Symbol(f, Head(row))
         IN  IF Len(accum) > Len(symbol) THEN [raised |-> TRUE, accum |-> accum]
             ELSE XorRow(f, Tail(row), missing_index,
                         [i \in 1..Len(accum) |-> BitXor(accum[i], symbol[i])])

\* RepairInstall without the trim to the unpadded size
RepairInstall_NoTrim(st, missing_index, x) ==
    IF x.raised THEN [st EXCEPT !.raised = TRUE]
    ELSE [st EXCEPT !.file.data[missing_index + 1] = x.accum,
                    !.blocks_repaired = @ + 1,
                    !.blocks_remain = @ - 1]

\* the end of the body of `for fec_index in fec_indices[:]`: the XOR `x` of
\* the row is trimmed to the missing block's unpadded size and installed
RepairInstall(st, missing_index, x) ==
    IF x.raised THEN [st EXCEPT !.raised = TRUE]
    ELSE [st EXCEPT
            !.file.data[missing_index + 1] =
                Slice(x.accum, 0,
                      Min(st.file.block_size,
                          st.file.size - st.file.block_size * missing_index)),
            !.blocks_repaired = @ + 1,
            !.blocks_remain = @ - 1]

\* the body of `for fec_index in fec_indices[:]` for one fec_index.  st holds
\* the file, the list fec_indices and the counters of the pass.  IndexError
\* when the matrix has no row fec_index or the row names a block that is no
\* slot of the file.
RepairRow(st, fec_index) ==
    IF fec_index >= Len(st.file.fec_matrix) THEN [st EXCEPT !.raised = TRUE]
    ELSE
    LET f == st.file
        row == f.fec_matrix[fec_index + 1]
    IN  IF \E j \in 1..Len(row) : row[j] >= Len(f.data)
        THEN [st EXCEPT !.raised = TRUE]
        ELSE
    LET missing_indices == SelectSeq(row, LAMBDA i : Falsy(f.data[i + 1]))
        removed == [st EXCEPT !.fec_indices =
                      SelectSeq(@, LAMBDA i : i # fec_index)]
    IN  IF Len(missing_indices) > 1 THEN st
        ELSE IF Len(missing_indices) = 0 THEN removed
        ELSE RepairInstall(removed, missing_indices[1],
                           XorRow(f, row, missing_indices[1],
                                  f.fec_blocks[fec_index + 1]))

RECURSIVE RepairPass(_, _)
\* `for fec_index in fec_indices[:]`: over the copy taken when the pass starts
RepairPass(st, todo) ==
    IF todo = <<>> \/ st.raised THEN st
    ELSE RepairPass(RepairRow(st, Head(todo)), Tail(todo))

RECURSIVE RepairLoop(_)
\* the end of a pass of the while loop: a pass that repaired nothing ends the
\* attempt (`return`), any other goes on to the loop's test
RepairAfterPass(pass) ==
    IF pass.raised THEN pass
    ELSE IF pass.blocks_repaired = 0 THEN [pass EXCEPT !.stalled = TRUE]
    ELSE RepairLoop(pass)

\* `while blocks_remain > 0`
RepairLoop(st) ==
    IF st.blocks_remain <= 0 \/ st.raised THEN st
    ELSE RepairAfterPass(RepairPass([st EXCEPT !.blocks_repaired = 0],
                                    st.fec_indices))

\* CheckContents without the comparison of the digest
CheckContents_NoHash(f, contents) ==
    IF Len(contents) # f.size THEN [status |-> "fail", contents |-> <<>>, file |-> f]
    ELSE [status |-> "ok", contents |-> contents, file |-> f]

\* the checks at the end of File.reconstruct on the joined blocks
CheckContents(f, contents) ==
    IF Len(contents) # f.size THEN [status |-> "fail", contents |-> <<>>, file |-> f]
    ELSE IF Sha256Hex(contents) # f.hash
         THEN [status |-> "fail", contents |-> <<>>, file |-> f]
    ELSE [status |-> "ok", contents |-> contents, file |-> f]

\* `self.fec and self.fec.startswith('ldpc:')`
IsLdpc(f) == f.fec.scheme = "ldpc:"

\* File.reconstruct after the repair loop, which left st.  bytes().join
\* raises TypeError on a list that still holds None.
ReconstructRepaired(st) ==
    IF st.raised THEN [status |-> "raise", contents |-> <<>>, file |-> st.file]
    ELSE IF st.stalled THEN [status |-> "fail", contents |-> <<>>, file |-> st.file]
    ELSE IF CountNone(st.file.data) > 0
         THEN [status |-> "raise", contents |-> <<>>, file |-> st.file]
    ELSE CheckContents(st.file, Join(st.file.data))

\* File.reconstruct before `while blocks_remain > 0`: the file with its
\* matrix, the indices of the parity blocks received and the counters
LoopStart(f, matrix) ==
    [file |-> [f EXCEPT !.fec_matrix = matrix],
     fec_indices |->
         SelectSeq([i \in 1..Len(f.fec_blocks) |-> i - 1],
                   LAMBDA i : ~Falsy(f.fec_blocks[i + 1])),
     blocks_remain |-> CountNone(f.data),
     blocks_repaired |-> 0,
     raised |-> FALSE,
     stalled |-> FALSE]

\* File.reconstruct of an LDPC file once the matrix is there (`built`)
ReconstructLdpc(f, built) ==
    IF built.hang THEN [status |-> "hang", contents |-> <<>>, file |-> f]
    ELSE ReconstructRepaired(RepairLoop(LoopStart(f, built.matrix)))

\* File.reconstruct.  status is "ok" (contents returned), "fail" (None
\* returned), "raise" (an exception leaves the method) or "hang" (the matrix
\* construction never returns); file is the object as the method leaves it.
reconstruct(f) ==
    IF IsLdpc(f)
    THEN ReconstructLdpc(f,
            IF f.fec_matrix = <<>>
            THEN fec_init_matrix([k |-> f.fec.k, n |-> f.fec.n, N1 |-> f.fec.N1,
                                  seed |-> IF f.fec.seed = <<>> THEN 1
                                           ELSE f.fec.seed[1]])
            ELSE [hang |-> FALSE, matrix |-> f.fec_matrix])
    ELSE IF CountNone(f.data) > 0
         THEN [status |-> "fail", contents |-> <<>>, file |-> f]
         ELSE CheckContents(f, Join(f.data))

---------------------------------------------------------------------------
(* files.py: class FileService *)

\* the announcements the ground station sends in this model.  ET.fromstring
\* is the library's: an XML body is a one-byte token naming one of the
\* element trees below, and any other body is not well-formed XML.
ContentA == <<97, 98, 99>>      \* "abc": file 1, blocks "ab" and "c"
ContentB == <<100>>             \* "d": file 2, one block

Doc(id, path, hash, size, block_size, fec) ==
    [ok |-> TRUE, id |-> id, path |-> path, hash |-> hash, size |-> size,
     block_size |-> block_size, fec |-> fec]

Ldpc(k, n, n1, seed) ==
    [scheme |-> "ldpc:", k |-> k, n |-> n, N1 |-> n1, seed |-> seed]

XmlDocs ==
    << \* 1: scenario S2, file 1 without FEC
       Doc(<<1>>, <<"a.txt">>, <<Sha256Hex(ContentA)>>, <<3>>, <<2>>, <<>>),
       \* 2: file 1 with the hash of another content
       Doc(<<1>>, <<"a.txt">>, <<Sha256Hex(<<97, 98, 100>>)>>, <<3>>, <<2>>, <<>>),
       \* 3: file 1 with LDPC parity, one row over both blocks
       Doc(<<1>>, <<"a.txt">>, <<Sha256Hex(ContentA)>>, <<3>>, <<2>>,
           <<Ldpc(2, 3, 1, <<>>)>>),
       \* 4: file 1 with an unsupported FEC scheme
       Doc(<<1>>, <<"a.txt">>, <<Sha256Hex(ContentA)>>, <<3>>, <<2>>,
           <<[scheme |-> "rs:"]>>),
       \* 5: file 1 announced one byte longer than its content
       Doc(<<1>>, <<"a.txt">>, <<Sha256Hex(ContentA)>>, <<4>>, <<2>>, <<>>),
       \* 6: no <size> child
       Doc(<<1>>, <<"a.txt">>, <<Sha256Hex(ContentA)>>, <<>>, <<2>>, <<>>),
       \* 7: file 2 without FEC
       Doc(<<2>>, <<"b.txt">>, <<Sha256Hex(ContentB)>>, <<1>>, <<1>>, <<>>),
       \* 8: scenario S4, file 1 with fec "ldpc:k=2,n=3,N1=3,seed=1"
       Doc(<<1>>, <<"a.txt">>, <<Sha256Hex(ContentA)>>, <<3>>, <<2>>,
           <<Ldpc(2, 3, 3, <<1>>)>>),
       \* 9: file 2 with its hash written in upper-case hex
       Doc(<<2>>, <<"b.txt">>, <<UpperHex(Sha256Hex(ContentB))>>, <<1>>, <<1>>,
           <<>>) >>

\* ET.fromstring(xml)
XmlParse(xml) ==
    IF Len(xml) = 1 /\ xml[1] \in 1..Len(XmlDocs)
    THEN XmlDocs[xml[1]]
    ELSE [ok |-> FALSE]

\* signature_len = 128
signature_len == 128

\* FileService.__block_header_len
block_header_len == 6

\* self.__last_file is a reference to a File object: None, the object the
\* map holds under `id`, or an object the map holds no more (replaced by a
\* later announcement of its id), which nothing changes any further
NoLast == [kind |-> "none"]
LiveLast(id) == [kind |-> "live", id |-> id]
DetachedLast(obj) == [kind |-> "detached", obj |-> obj]

\* the object self.__last_file refers to
LastObj(fs) ==
    IF fs.last_file.kind = "live" THEN fs.files[fs.last_file.id]
    ELSE fs.last_file.obj

\* an exception leaves the handler: the router does not catch it, nor do the
\* ingestion loops
Abort(fs) == [fs EXCEPT !.aborted = TRUE]

\* del self.__files[file_id]
DelKey(map, key) == [x \in DOMAIN map \ {key} |-> map[x]]

\* self.__files[key] = f
SetKey(map, key, f) == [x \in DOMAIN map \cup {key} |-> IF x = key THEN f ELSE map[x]]

\* `contents = f.reconstruct()` in __try_reconstruct: the call is noted with
\* the way it ended; "fail" is a return of None or of b''
Called(fs, file_id, r) ==
    [fs EXCEPT !.tried =
        Append(@, [id |-> file_id,
                   status |-> IF r.status = "ok" /\ r.contents = <<>>
                              THEN "fail" ELSE r.status])]

\* FileService.__try_reconstruct after `contents = f.reconstruct()`, r being
\* what reconstruct did
Reconstructed(fs, file_id, r) ==
    IF r.status = "raise" THEN Abort([fs EXCEPT !.files[file_id] = r.file])
    ELSE IF r.status = "hang" THEN [fs EXCEPT !.hung = TRUE]
    ELSE IF r.status = "fail" \/ r.contents = <<>>            \* `if not contents`
         THEN [fs EXCEPT !.files[file_id] = r.file]
    ELSE [fs EXCEPT
            !.written = @ \cup {[path |-> r.file.path, contents |-> r.contents,
                                 file |-> r.file]},
            !.files = DelKey(@, file_id),
            !.last_file = IF @ = LiveLast(file_id) THEN NoLast ELSE @]

\* FileService.__try_reconstruct
try_reconstruct(fs, file_id) ==
    IF file_id \notin DOMAIN fs.files THEN Abort(fs)          \* KeyError
    ELSE Reconstructed(Called(fs, file_id, reconstruct(fs.files[file_id])),
                       file_id, reconstruct(fs.files[file_id]))

\* Announced that keeps the entry the map already holds for the id
Announced_KeepOld(fs, made) ==
    IF made.raised THEN Abort(fs)
    ELSE IF made.file.id \in DOMAIN fs.files THEN fs
    ELSE [fs EXCEPT !.files = SetKey(@, made.file.id, made.file)]

\* FileService.__description_packet from `self.__files[f.id] = f` on, made
\* being what File(xml) did
Announced(fs, made) ==
    IF made.raised THEN Abort(fs)
    ELSE [fs EXCEPT
            !.files = SetKey(@, made.file.id, made.file),
            !.last_file = IF @ = LiveLast(made.file.id)
                          THEN DetachedLast(fs.files[made.file.id])
                          ELSE @]

\* FileService.__description_packet
description_packet(fs, payload) ==
    IF Len(payload) < 2 THEN Abort(fs)                        \* struct.error
    ELSE Announced(fs,
            File(XmlParse(SliceFrom(payload,
                    2 + BE(Slice(payload, 0, 2)) + signature_len))))

\* FileService.__block_packet from `self.__last_file = f` on; f is the object
\* fetched from the map on entry, in_map tells whether the map still holds it
BlockStore(fs, f, in_map, file_id, block, block_number) ==
    LET pushed == push_block(f, block, block_number)
        fs2 == IF in_map
               THEN [fs EXCEPT !.last_file = LiveLast(file_id),
                               !.files[file_id] = pushed.file]
               ELSE [fs EXCEPT !.last_file = DetachedLast(pushed.file)]
    IN  IF pushed.raised THEN Abort(fs2)                      \* IndexError
        ELSE IF reconstructable(pushed.file) THEN try_reconstruct(fs2, file_id)
        ELSE fs2

\* FileService.__block_packet after the attempt on the last file, which left
\* fs1 and may have reconstructed the object f0 and deleted it from the map
BlockAfterLast(fs1, f0, file_id, block, block_number) ==
    IF fs1.aborted \/ fs1.hung THEN fs1
    ELSE IF file_id \in DOMAIN fs1.files
         THEN BlockStore(fs1, fs1.files[file_id], TRUE, file_id, block, block_number)
         ELSE BlockStore(fs1, reconstruct(f0).file, FALSE, file_id, block, block_number)

\* FileService.__block_packet
block_packet(fs, payload) ==
    IF Len(payload) < block_header_len THEN Abort(fs)         \* struct.error
    ELSE
    LET file_id == BE(Slice(payload, 0, 4))
        block_number == BE(Slice(payload, 4, 6))
        block == SliceFrom(payload, block_header_len)
    IN  IF file_id \notin DOMAIN fs.files THEN fs
        ELSE BlockAfterLast(
                IF /\ fs.last_file # LiveLast(file_id)
                   /\ fs.last_file # NoLast
                   /\ maybe_reconstructable(LastObj(fs))
                THEN try_reconstruct(fs, LastObj(fs).id)
                ELSE fs,
                fs.files[file_id], file_id, block, block_number)

\* FileService.__fec_packet
fec_packet(fs, payload) ==
    IF Len(payload) < block_header_len THEN Abort(fs)         \* struct.error
    ELSE
    LET file_id == BE(Slice(payload, 0, 4))
        block_number == BE(Slice(payload, 4, 6))
        block == SliceFrom(payload, block_header_len)
    IN  IF file_id \notin DOMAIN fs.files THEN fs
        ELSE [fs EXCEPT !.files[file_id] = push_fec(@, block, block_number)]

\* FileService.__signaling_packet: a log line
signaling_packet(fs, payload) == fs

---------------------------------------------------------------------------
(* timeservice.py: class TimeService *)

\* str(data, 'utf-8') succeeds.  The bytes above 0x7f of the model are 0xff,
\* which no UTF-8 string holds
Utf8(data) == \A i \in 1..Len(data) : data[i] < 128

\* 9999-12-31 23:59:59, the last second datetime can hold, as '>Q' bytes
LastTimestamp == <<0, 0, 0, 58, 255, 244, 65, 127>>

RECURSIVE BytesAbove(_, _, _)
\* a > b for byte strings of one length read as big-endian integers, from
\* byte i on
BytesAbove(a, b, i) ==
    IF i > Len(a) THEN FALSE
    ELSE IF a[i] # b[i] THEN a[i] > b[i]
    ELSE BytesAbove(a, b, i + 1)

\* one descriptor raises: UnicodeDecodeError for the server id, OverflowError
\* or ValueError in utcfromtimestamp
DescriptorRaises(desc_id, data) ==
    IF desc_id = 1 THEN ~Utf8(data)
    ELSE IF desc_id = 2 /\ Len(data) = 8 THEN BytesAbove(data, LastTimestamp, 1)
    ELSE FALSE

RECURSIVE TimeRaises(_)
\* the loop of TimeService.__get ends with an exception
TimeRaises(payload) ==
    IF Len(payload) <= 2 THEN FALSE
    ELSE IF payload[2] > Len(payload) - 2 THEN FALSE
    ELSE IF DescriptorRaises(payload[1], Slice(payload, 2, payload[2] + 2))
    THEN TRUE
    ELSE TimeRaises(SliceFrom(payload, payload[2] + 2))

\* TimeService.__get: prints, or raises
time_get(fs, payload) == IF TimeRaises(payload) THEN Abort(fs) ELSE fs

---------------------------------------------------------------------------
(* protocols.py: class LDPRouter, with the handlers the two programs        *)
(* register (files.py 56-60, timeservice.py 46)                             *)

Registrations == {105, 24, 255, 66, 90, 129}

\* LDPRouter.route: an unknown type is printed; an exception of the handler
\* is not caught
route(fs, packet) ==
    IF packet.type \notin Registrations THEN fs
    ELSE IF packet.type = 105 THEN description_packet(fs, packet.payload)
    ELSE IF packet.type = 24 THEN block_packet(fs, packet.payload)
    ELSE IF packet.type = 255 THEN fec_packet(fs, packet.payload)
    ELSE IF packet.type = 129 THEN time_get(fs, packet.payload)
    ELSE signaling_packet(fs, packet.payload)

---------------------------------------------------------------------------
(* free-outernet.py: processFrame; outernet_kiss_file.py: the main loop     *)

\* the length of the Ethernet header of a frame
eth_header_len == 14

\* the state of the program after a frame: the defragmenter, the file
\* service, and what became of the frame (the value push returned, whether
\* LDP() was called and what it gave, whether the router was called)
FrameNotPushed(pend, fs) ==
    [pending |-> pend, fs |-> fs, ret |-> None, parsed |-> FALSE,
     routed |-> FALSE]

\* `if not packet: return`
FrameNoDatagram(r, fs) ==
    [pending |-> r.pending, fs |-> fs, ret |-> r.ret, parsed |-> FALSE,
     routed |-> FALSE]

\* the ValueError of LDP() not caught
FrameRejected_Uncaught(r, fs, ldp) ==
    [pending |-> r.pending, fs |-> Abort(fs), ret |-> r.ret, parsed |-> TRUE,
     ldp |-> ldp, routed |-> FALSE]

\* LDP() raised ValueError: printed, the frame is done
FrameRejected(r, fs, ldp) ==
    [pending |-> r.pending, fs |-> fs, ret |-> r.ret, parsed |-> TRUE,
     ldp |-> ldp, routed |-> FALSE]

\* router.route(packet), outside every try
FrameRouted(r, fs, ldp) ==
    [pending |-> r.pending, fs |-> route(fs, ldp), ret |-> r.ret,
     parsed |-> TRUE, ldp |-> ldp, routed |-> TRUE]

\* from the call of LDP() on
FrameParsed(r, fs, ldp) ==
    IF ldp.raised THEN FrameRejected(r, fs, ldp) ELSE FrameRouted(r, fs, ldp)

\* from the return of push on: an exception of push is no ValueError and
\* leaves the loop
FramePushed(pend, fs, r) ==
    IF r.raised THEN FrameNotPushed(pend, Abort(fs))
    ELSE IF Falsy(r.ret) THEN FrameNoDatagram(r, fs)
    ELSE FrameParsed(r, fs, LDP(r.ret))

\* try: packet = opDefragmenter.push(protocols.OP(...)) except ValueError
FrameOP(pend, fs, op) ==
    IF op.raised THEN FrameNotPushed(pend, fs)
    ELSE FramePushed(pend, fs, push(pend, op))

\* free-outernet.py, processFrame(frame)
processFrame(pend, fs, frame) ==
    IF Len(frame) < eth_header_len THEN FrameNotPushed(pend, fs)
    ELSE FrameOP(pend, fs, OP(frame))

\* outernet_kiss_file.py, the body of `for frame in frames`
kiss_file_frame(pend, fs, frame) ==
    FrameOP(pend, fs, OP(SliceFrom(frame, eth_header_len)))

---------------------------------------------------------------------------
(* kiss.py: class KISSDeframer *)

FEND == 192
FESC == 219
TFEND == 220
TFESC == 221

\* KISSDeframer.__init__.  The deque self.__kiss is empty whenever push
\* returns, so the object between two calls is its __pdu and __transpose.
FreshDeframer == [pdu |-> <<>>, transpose |-> FALSE]

\* no stream is being read
NoStream ==
    [frames |-> <<>>, rest |-> <<>>, read |-> <<>>, out |-> <<>>, cut |-> FALSE]

\* one turn of `while self.__kiss` on the byte c taken from the deque; d is
\* the deframer together with the list pdus of the call
KissByte(d, c) ==
    IF c = FEND
    THEN [d EXCEPT
            !.pdus = IF d.pdu # <<>> /\ d.pdu[1] % 16 = 0
                     THEN Append(@, Tail(d.pdu)) ELSE @,
            !.pdu = <<>>]
    ELSE IF d.transpose
    THEN [d EXCEPT
            !.pdu = IF c = TFEND THEN Append(@, FEND)
                    ELSE IF c = TFESC THEN Append(@, FESC)
                    ELSE @,
            !.transpose = FALSE]
    ELSE IF c = FESC THEN [d EXCEPT !.transpose = TRUE]
    ELSE [d EXCEPT !.pdu = Append(@, c)]

RECURSIVE KissLoop(_, _)
\* the loop `while self.__kiss` over the bytes of data
KissLoop(d, data) ==
    IF data = <<>> THEN d
    ELSE KissLoop(KissByte(d, Head(data)), Tail(data))

\* push that starts every call outside an escape
kiss_push_FreshEscape(d, data) ==
    KissLoop([pdu |-> d.pdu, transpose |-> FALSE, pdus |-> <<>>], data)

\* KISSDeframer.push(data): the deframer after the call and the list returned
kiss_push(d, data) ==
    KissLoop([pdu |-> d.pdu, transpose |-> d.transpose, pdus |-> <<>>], data)

---------------------------------------------------------------------------
(* The file service under every sequence of packets: specification Spec *)

\* packets handled in one behaviour
MaxPackets == 5

\* the file ids, block numbers and block contents the sender uses: file 3 is
\* never announced, block number 2 is no slot of file 1 or 2
FileIds == {1, 2, 3}
BlockNumbers == {0, 1, 2}
BlockValues == {<<97, 98>>, <<99>>, <<100>>, <<>>}

\* the parity block of row 0 of file 1: "ab" XOR "c" padded with 0xff
FecA == <<BitXor(97, 99), BitXor(98, 255)>>
FecValues == {FecA, <<0, 0>>}

\* payload of a description packet: cert_len, cert, signature, xml
DescriptionPayload(xml) == U16(0) \o Repeat(0, signature_len) \o xml
\* payload of a block or FEC packet: file_id, block_number, block
BlockPayload(file_id, block_number, block) ==
    U32(file_id) \o U16(block_number) \o block

DescriptionPayloads == {DescriptionPayload(<<d>>) : d \in 0..Len(XmlDocs)}
BlockPayloads ==
    {BlockPayload(i, n, b) : i \in FileIds, n \in BlockNumbers, b \in BlockValues}
        \cup {<<0, 0, 0, 1, 0>>}
FecPayloads ==
    {BlockPayload(i, n, b) : i \in {1, 3}, n \in {0, 1}, b \in FecValues}

\* no frame has gone through the ingestion loop
NoFrame == [parsed |-> FALSE, rejected |-> FALSE, routed |-> FALSE, rejects |-> 0]

\* no datagram has been handed to LDP()
NoDatagram == [built |-> FALSE]

\* no datagram is being delivered
NotSending ==
    [on |-> FALSE, k |-> 0, fresh |-> FALSE, sent |-> <<>>, outs |-> <<>>]

\* the file service as one value, and its assignment to the variables
FS == [files |-> files, last_file |-> last_file, written |-> written,
       aborted |-> aborted, hung |-> hung, tried |-> <<>>]

SetFS(fs) ==
    /\ files' = fs.files
    /\ last_file' = fs.last_file
    /\ written' = fs.written
    /\ aborted' = fs.aborted
    /\ hung' = fs.hung
    /\ tried' = fs.tried

Running == ~aborted /\ ~hung /\ handled < MaxPackets

Init ==
    /\ files = <<>>
    /\ last_file = NoLast
    /\ written = {}
    /\ aborted = FALSE
    /\ hung = FALSE
    /\ tried = <<>>
    /\ handled = 0
    /\ pending = <<>>
    /\ ret = None
    /\ sending = NotSending
    /\ l4 = NoDatagram
    /\ frontend = "none"
    /\ outcome = NoFrame
    /\ deframer = FreshDeframer
    /\ stream = NoStream

DescriptionPacket ==
    \E payload \in DescriptionPayloads :
        /\ Running
        /\ SetFS(description_packet(FS, payload))
        /\ handled' = handled + 1
        /\ UNCHANGED <<pending, ret, sending, l4, frontend, outcome, deframer,
                       stream>>

BlockPacket ==
    \E payload \in BlockPayloads :
        /\ Running
        /\ SetFS(block_packet(FS, payload))
        /\ handled' = handled + 1
        /\ UNCHANGED <<pending, ret, sending, l4, frontend, outcome, deframer,
                       stream>>

FecPacket ==
    \E payload \in FecPayloads :
        /\ Running
        /\ SetFS(fec_packet(FS, payload))
        /\ handled' = handled + 1
        /\ UNCHANGED <<pending, ret, sending, l4, frontend, outcome, deframer,
                       stream>>

Next == DescriptionPacket \/ BlockPacket \/ FecPacket

Spec == Init /\ [][Next]_vars

---------------------------------------------------------------------------
(* Claims about the file service *)

\* C1 (hash gate).  Every file written under the output directory was written
\* with the concatenation of its data slots in index order, and that
\* concatenation has the length the descriptor announces and the SHA-256 hex
\* digest the descriptor announces.
C1_HashGate ==
    \A w \in written :
        /\ w.contents = Join(w.file.data)
        /\ Len(w.contents) = w.file.size
        /\ Sha256Hex(w.contents) = w.file.hash
        /\ w.path = w.file.path

\* all data slots are filled and their concatenation does not match the descriptor
Mismatched(f) ==
    /\ CountNone(f.data) = 0
    /\ \/ Len(Join(f.data)) # f.size
       \/ Sha256Hex(Join(f.data)) # f.hash

\* C1 witness: one file has been written while another, fully assembled with
\* the right length and the wrong digest, is still unwritten in the map
C1_Witness ==
    /\ written # {}
    /\ \E id \in DOMAIN files :
          /\ Mismatched(files[id])
          /\ Len(Join(files[id].data)) = files[id].size
          /\ \A w \in written : w.file.id # id

\* the content the sender splits into the blocks of file `id`
FileContent(id) == IF id = 1 THEN ContentA ELSE ContentB

\* block i of file f as the sender cuts it
CorrectBlock(f, i) ==
    Slice(FileContent(f.id), f.block_size * i, f.block_size * (i + 1))

\* f is announced without usable FEC, with the size and hash of the content
\* the sender splits, and every filled slot holds the sender's block
GoodPlainFile(f) ==
    /\ ~IsLdpc(f)
    /\ f.size = Len(FileContent(f.id))
    /\ f.hash = Sha256Hex(FileContent(f.id))
    /\ \A i \in 0..(f.blocks - 1) :
          f.data[i + 1] = None \/ f.data[i + 1] = CorrectBlock(f, i)

\* the write events of file id
WritesOf(w, id) == {e \in w : e.file.id = id}

\* C2.  Whenever a data-block packet carrying the sender's block n fills an
\* empty slot of a file announced without FEC (or with an unsupported scheme)
\* whose filled slots hold the sender's blocks: if another slot stays empty,
\* nothing is written for the file and it stays in the map with slot n
\* filled; if slot n was the last empty one, the file is written with the
\* blocks concatenated in index order and removed from the map.
C2_PlainDelivery ==
    [][\A id \in DOMAIN files : \A n \in BlockNumbers :
          ( /\ GoodPlainFile(files[id])
            /\ n < files[id].blocks
            /\ files[id].data[n + 1] = None
            /\ SetFS(block_packet(FS, BlockPayload(id, n, CorrectBlock(files[id], n)))) )
          => IF CountNone(files[id].data) > 1
             THEN /\ WritesOf(written', id) = WritesOf(written, id)
                  /\ id \in DOMAIN files'
                  /\ files'[id] = [files[id] EXCEPT
                                     !.data[n + 1] = CorrectBlock(files[id], n)]
             ELSE /\ id \notin DOMAIN files'
                  /\ \E e \in written' :
                        /\ e.file.id = id
                        /\ e.path = files[id].path
                        /\ e.contents = FileContent(id)
                        /\ e.contents =
                             Join([files[id].data EXCEPT
                                     ![n + 1] = CorrectBlock(files[id], n)])
    ]_vars

\* C2 witness: file 1, announced with an unsupported FEC scheme, has been
\* written with its content, and is no longer in the map
C2_Witness ==
    /\ 1 \notin DOMAIN files
    /\ \E e \in written :
          /\ e.file.id = 1
          /\ e.file.fec.scheme = "rs:"
          /\ e.contents = ContentA

\* the descriptor announces the size and the digest of the content the
\* sender splits
GoodDescriptor(f) ==
    /\ f.size = Len(FileContent(f.id))
    /\ f.hash = Sha256Hex(FileContent(f.id))

\* every slot of f is empty (None or b'') or holds the sender's block
NoWrongBlock(f) ==
    \A i \in 0..(f.blocks - 1) :
        Falsy(f.data[i + 1]) \/ f.data[i + 1] = CorrectBlock(f, i)

\* the last call of reconstruct for file id noted in log t returned nothing
LastCallFailed(t, id) ==
    \E i \in 1..Len(t) :
        /\ t[i].id = id
        /\ t[i].status = "fail"
        /\ \A j \in (i + 1)..Len(t) : t[j].id # id

RECURSIVE DeliverFrom(_, _, _)
\* the file service after the data-block packets that carry the sender's
\* blocks i, i+1, ... of the file announced as f, as long as the program runs
DeliverFrom(fs, f, i) ==
    IF i >= f.blocks \/ fs.aborted \/ fs.hung THEN fs
    ELSE DeliverFrom(block_packet([fs EXCEPT !.tried = <<>>],
                                  BlockPayload(f.id, i, CorrectBlock(f, i))),
                     f, i + 1)

\* file id has left the map of fs and was written with the sender's content
Delivered_To(fs, id) ==
    /\ id \notin DOMAIN fs.files
    /\ \E e \in fs.written : e.file.id = id /\ e.contents = FileContent(id)

\* C11, first half.  A call of reconstruct that returns nothing (blocks
\* missing, repair stalled, length or digest mismatch) leaves the file in
\* the files map.
C11_FailureKeepsFile ==
    \A id \in FileIds : LastCallFailed(tried, id) => id \in DOMAIN files

\* C11.  After a failed reconstruction attempt the file is still in the files
\* map, and if the descriptor matches the sender's content and no slot holds
\* a wrong block, delivering the sender's content of every data block after
\* the failure ends with the file written.
C11_FailureThenDelivery ==
    \A id \in FileIds :
        LastCallFailed(tried, id) =>
            /\ id \in DOMAIN files
            /\ (~aborted /\ ~hung /\ GoodDescriptor(files[id])
                    /\ NoWrongBlock(files[id]))
                   => Delivered_To(DeliverFrom(FS, files[id], 0), id)

\* C11 witness: an attempt on file 2 has failed, file 2 is in the map with
\* its only slot empty, and the sender's block, delivered next, is not stored
\* because the attempt on file 1, the last file, raises
C11_Witness ==
    /\ LastCallFailed(tried, 2)
    /\ ~aborted /\ ~hung
    /\ 2 \in DOMAIN files
    /\ GoodDescriptor(files[2]) /\ NoWrongBlock(files[2])
    /\ DeliverFrom(FS, files[2], 0).aborted

---------------------------------------------------------------------------
(* The defragmenter under every sequence of fragments: specification        *)
(* SpecDefrag.  Fragments of any datagram arrive in any order on one        *)
(* carousel (Arrive); then the shares of one datagram are delivered         *)
(* (Deliver): in index order when the partial holds earlier fragments, in   *)
(* any order and with any losses when the partial is fresh.                 *)

\* fragments that arrive before the delivery starts
MaxNoise == 3
\* the largest number of data fragments of a datagram
MaxFrags == 4
\* the number of FEC fragments the sender adds to a datagram
MaxFec == 2

\* the carousel of the model
Carousel == 7

\* the datagrams on the air: generation 1 is the datagram delivered,
\* generation 2 an earlier one of the same carousel
Generations == {1, 2}
Delivered == CHOOSE g \in Generations : \A h \in Generations : g <= h

\* the OP packet that carries share s of datagram (g, k)
ShareOP(g, k, s) ==
    IF s < k
    THEN [length |-> 5, fragment_type |-> IF s = k - 1 THEN FragLast ELSE FragData,
          carousel_id |-> Carousel, last_fragment |-> k - 1,
          fragment_index |-> s, payload |-> Share(g, k, s)]
    ELSE [length |-> 5, fragment_type |-> FragFec,
          carousel_id |-> Carousel, last_fragment |-> MaxFec - 1,
          fragment_index |-> s - k, payload |-> Share(g, k, s)]

\* a packet of a type the defragmenter does not know
UnknownOP ==
    [length |-> 5, fragment_type |-> 0, carousel_id |-> Carousel,
     last_fragment |-> 0, fragment_index |-> 0, payload |-> <<0>>]

NoisePackets ==
    UNION {{ShareOP(g, k, s) : g \in Generations, s \in 0..(k + MaxFec - 1)} :
              k \in 1..MaxFrags}
        \cup {UnknownOP}

\* the partial of the carousel is as reset() leaves it
FreshPartial ==
    IF Carousel \in DOMAIN pending THEN pending[Carousel] = FreshLDP ELSE TRUE

\* the variables after a call of push that returned r
SetPushed(r) ==
    /\ pending' = r.pending
    /\ ret' = r.ret
    /\ aborted' = r.raised

InitDefrag ==
    /\ pending = <<>>
    /\ ret = None
    /\ sending = NotSending
    /\ aborted = FALSE
    /\ handled = 0
    /\ files = <<>>
    /\ last_file = NoLast
    /\ written = {}
    /\ hung = FALSE
    /\ tried = <<>>
    /\ l4 = NoDatagram
    /\ frontend = "none"
    /\ outcome = NoFrame
    /\ deframer = FreshDeframer
    /\ stream = NoStream

Arrive ==
    \E packet \in NoisePackets :
        /\ ~aborted
        /\ ~sending.on
        /\ handled < MaxNoise
        /\ SetPushed(push(pending, packet))
        /\ handled' = handled + 1
        /\ UNCHANGED <<sending, files, last_file, written, hung, tried, l4, frontend,
                       outcome, deframer, stream>>

\* share s may be the next one delivered
MayDeliver(k, s) ==
    IF sending.on
    THEN /\ k = sending.k
         /\ IF sending.fresh THEN ~InSeq(s, sending.sent)
            ELSE s = Len(sending.sent) /\ s < k
    ELSE IF FreshPartial THEN TRUE ELSE s = 0

Delivering(k, s, r) ==
    /\ SetPushed(r)
    /\ sending' = [on |-> TRUE, k |-> k,
                   fresh |-> IF sending.on THEN sending.fresh ELSE FreshPartial,
                   sent |-> Append(sending.sent, s),
                   outs |-> Append(sending.outs, r.ret)]

Deliver ==
    \E k \in 1..MaxFrags : \E s \in 0..(k + MaxFec - 1) :
        /\ ~aborted
        /\ MayDeliver(k, s)
        /\ Delivering(k, s, push(pending, ShareOP(Delivered, k, s)))
        /\ UNCHANGED <<handled, files, last_file, written, hung, tried, l4, frontend,
                       outcome, deframer, stream>>

NextDefrag == Arrive \/ Deliver

SpecDefrag == InitDefrag /\ [][NextDefrag]_vars

---------------------------------------------------------------------------
(* The L4 parser on datagrams built by a sender, intact or with one bit     *)
(* flipped: specification SpecLDP                                           *)

\* the longest payload and the most bytes that follow a datagram in its buffer
MaxPayload == 2
MaxExtra == 1

LdpTypes == {24, 129}
ByteValues == {90, 255}

RECURSIVE BytesUpTo(_)
\* the byte strings of at most n bytes
BytesUpTo(n) ==
    IF n = 0 THEN {<<>>}
    ELSE BytesUpTo(n - 1) \cup
         {Append(b, v) : b \in {c \in BytesUpTo(n - 1) : Len(c) = n - 1},
                         v \in ByteValues}

\* struct.pack of a 24-bit big-endian length
U24(v) == <<(v \div 65536) % 256, (v \div 256) % 256, v % 256>>

\* the sender appends the CRC of everything before it, high byte first
Sealed(body, crc) == body \o U16(crc[1]) \o U16(crc[2])

\* the datagram of type t and payload s, as the sender builds it
LdpHeaderAndPayload(t, s) ==
    <<t>> \o U24(ldp_header_len + Len(s) + ldp_checksum_len) \o s
LdpDatagram(t, s) ==
    Sealed(LdpHeaderAndPayload(t, s), Crc32Mpeg(LdpHeaderAndPayload(t, s)))

\* bit b of the buffer inverted: byte b \div 8, bit b % 8 of it
FlipBit(data, b) ==
    [data EXCEPT ![(b \div 8) + 1] = BitXor(@, 2 ^ (b % 8))]

\* the buffer handed to LDP(), with what was built into it and what came out
Handed(t, s, bit, data) ==
    [built |-> TRUE, type |-> t, payload |-> s, bit |-> bit, data |-> data,
     parsed |-> LDP(data)]

InitLDP ==
    /\ l4 = NoDatagram
    /\ pending = <<>>
    /\ ret = None
    /\ sending = NotSending
    /\ aborted = FALSE
    /\ handled = 0
    /\ files = <<>>
    /\ last_file = NoLast
    /\ written = {}
    /\ hung = FALSE
    /\ tried = <<>>
    /\ frontend = "none"
    /\ outcome = NoFrame
    /\ deframer = FreshDeframer
    /\ stream = NoStream

NotL4 == <<files, last_file, written, pending, ret, sending, frontend,
           outcome, aborted, hung, tried, deframer, stream, handled>>

\* parse a datagram as sent, followed by extra bytes
ParseSent ==
    \E t \in LdpTypes : \E s \in BytesUpTo(MaxPayload) :
    \E extra \in BytesUpTo(MaxExtra) :
        /\ ~l4.built
        /\ l4' = Handed(t, s, -1, LdpDatagram(t, s) \o extra)
        /\ UNCHANGED NotL4

\* parse the same buffer with one bit of data[0..length) flipped
ParseFlipped ==
    \E b \in 0..(8 * (ldp_header_len + MaxPayload + ldp_checksum_len) - 1) :
        /\ l4.built
        /\ l4.bit = -1
        /\ b < 8 * (ldp_header_len + Len(l4.payload) + ldp_checksum_len)
        /\ l4' = Handed(l4.type, l4.payload, b, FlipBit(l4.data, b))
        /\ UNCHANGED NotL4

NextLDP == ParseSent \/ ParseFlipped

SpecLDP == InitLDP /\ [][NextLDP]_vars

---------------------------------------------------------------------------
(* Claims about the L4 parser *)

RaisedError(parsed, error) ==
    IF parsed.raised THEN parsed.error = error ELSE FALSE

\* C8 as stated.  After the flip of any one bit of data[0..length) of a
\* valid datagram the parse raises the invalid-checksum error.
C8_AnyFlipIsChecksumError ==
    (l4.built /\ l4.bit >= 0) => RaisedError(l4.parsed, "invalid checksum")

\* the flipped bit lies in the 24-bit length field, bytes 1..3
InLengthField(b) == (b \div 8) \in 1..3

\* C8 amended.  After the flip of one bit of the type byte, the payload or
\* the CRC trailer the parse raises the invalid-checksum error; after the
\* flip of a bit of the length field that makes length exceed the buffer it
\* raises the invalid-length error.
C8_FlipIsRejected ==
    (l4.built /\ l4.bit >= 0) =>
        /\ ~InLengthField(l4.bit)
             => RaisedError(l4.parsed, "invalid checksum")
        /\ (InLengthField(l4.bit) /\ LdpLength(l4.data) > Len(l4.data))
             => RaisedError(l4.parsed, "invalid length")

\* C8 witness: a payload bit was flipped and the parse raised the
\* invalid-checksum error
C8_Witness ==
    /\ l4.built /\ l4.bit >= 8 * ldp_header_len
    /\ l4.bit < 8 * (ldp_header_len + Len(l4.payload))
    /\ RaisedError(l4.parsed, "invalid checksum")

---------------------------------------------------------------------------
(* Claims about the defragmenter *)

\* the datagram being delivered, as the sender built it
SentPayload == Payload(Delivered, sending.k)

\* the first j shares delivered were data fragments 0, 1, ..., j - 1
InIndexOrder(j) == \A i \in 1..j : sending.sent[i] = i - 1

\* C3 (lossless concatenation).  When the k fragments of a datagram are
\* pushed in index order, whatever the partial held before, each of the first
\* k - 1 pushes returns None and the k-th returns the datagram.
C3_LosslessConcatenation ==
    (sending.on /\ InIndexOrder(Min(Len(sending.sent), sending.k)))
        => \A i \in 1..Min(Len(sending.sent), sending.k) :
               sending.outs[i] = IF i = sending.k THEN SentPayload ELSE None

\* C3 witness: the three fragments of a datagram were pushed in order into a
\* partial that held earlier fragments, and the third push returned it
C3_Witness ==
    /\ sending.on /\ ~sending.fresh
    /\ sending.k = 3
    /\ sending.sent = <<0, 1, 2>>
    /\ sending.outs = <<None, None, SentPayload>>
    /\ ret = SentPayload

\* C4 (no stale prefix).  Every datagram the defragmenter returns is one
\* transmitted datagram: never fragments of two datagrams joined.
C4_NoStalePrefix ==
    ret # None =>
        \E g \in Generations : \E k \in 1..MaxFrags : ret = Payload(g, k)

\* the shares delivered are in ascending order of share number: the data
\* fragments by index, then the FEC fragments by index
Ascending(sent) == \A i, j \in 1..Len(sent) : i < j => sent[i] < sent[j]

\* the data fragments among the first j shares delivered came in ascending
\* index order
DataAscending(j) ==
    \A i1, i2 \in 1..j :
        (i1 < i2 /\ sending.sent[i1] < sending.k /\ sending.sent[i2] < sending.k)
            => sending.sent[i1] < sending.sent[i2]

\* the k-th share delivered completes the datagram for the code: the data
\* fragments before it came in ascending order, the first share was a data
\* fragment, and the k-th is a FEC fragment or the last data fragment
CompletesAtK ==
    /\ Len(sending.sent) >= sending.k
    /\ DataAscending(sending.k)
    /\ sending.sent[1] < sending.k
    /\ sending.sent[sending.k] >= sending.k - 1

\* C5 as stated (FEC recovery).  From a fresh partial, as long as fewer than
\* k shares of the datagram have been pushed nothing is returned, and the
\* push of the k-th share, whichever shares came and in whichever order,
\* returns the datagram.
C5_AnyKShares ==
    (sending.on /\ sending.fresh) =>
        /\ \A i \in 1..Min(Len(sending.sent), sending.k - 1) :
               sending.outs[i] = None
        /\ Len(sending.sent) >= sending.k => sending.outs[sending.k] = SentPayload

\* C5 amended.  From a fresh partial, as long as fewer than k shares of the
\* datagram have been pushed nothing is returned; the push of the k-th share
\* returns the datagram when the data fragments came in ascending index
\* order, the first share was a data fragment and the k-th share is a FEC
\* fragment or the last data fragment.
C5_KSharesInOrder ==
    (sending.on /\ sending.fresh) =>
        /\ \A i \in 1..Min(Len(sending.sent), sending.k - 1) :
               sending.outs[i] = None
        /\ CompletesAtK => sending.outs[sending.k] = SentPayload

\* C5 witness: data fragment 1, then FEC fragments 1 and 0 of a datagram of
\* three data fragments; the third push returned the datagram
C5_Witness ==
    /\ sending.on /\ sending.fresh
    /\ sending.k = 3
    /\ sending.sent = <<1, 4, 3>>
    /\ sending.outs = <<None, None, SentPayload>>

\* C6 (exactly-once emission).  From a fresh partial, when shares of a
\* datagram of k >= 2 data fragments are pushed in the sender's order with
\* losses, at least one data fragment and at least k shares among them, the
\* datagram is returned by the push of the k-th share and by no other push,
\* before or after.
C6_ExactlyOnce ==
    ( /\ sending.on /\ sending.fresh
      /\ sending.k >= 2
      /\ Ascending(sending.sent)
      /\ Len(sending.sent) >= sending.k
      /\ sending.sent[1] < sending.k )
        => \A i \in 1..Len(sending.sent) :
               sending.outs[i] = IF i = sending.k THEN SentPayload ELSE None

\* C6 witness: data fragments 0 and 2 and both FEC fragments of a datagram of
\* three data fragments; it was returned at the first FEC fragment, and the
\* second FEC fragment returned nothing
C6_Witness ==
    /\ sending.on /\ sending.fresh
    /\ sending.k = 3
    /\ sending.sent = <<0, 2, 3, 4>>
    /\ sending.outs = <<None, None, SentPayload, None>>

---------------------------------------------------------------------------
(* The two programs under every sequence of frames: specification SpecPipe  *)

\* frames read in one behaviour
MaxFrames == 4

\* the carrier header: broadcast destination, a source address, ethertype
EthHeader == <<255, 255, 255, 255, 255, 255, 2, 0, 0, 0, 0, 1, 143, 255>>

\* the OP packet that carries a whole datagram: type 0x3c, index 0
SingleOP(datagram) ==
    <<Len(datagram) + 4, FragLast, Carousel, 0, 0>> \o datagram

\* the OP packets that carry a datagram in two fragments, cut after `cut`
\* bytes
FirstOP(datagram, cut) ==
    <<cut + 4, FragData, Carousel, 1, 0>> \o Slice(datagram, 0, cut)
SecondOP(datagram, cut) ==
    <<Len(datagram) - cut + 4, FragLast, Carousel, 1, 1>>
        \o SliceFrom(datagram, cut)

\* datagrams of the file service: the announcement of file 1 (two blocks,
\* no FEC), its blocks, a block past its last slot, a block packet shorter
\* than its header, an announcement without <size>, a FEC block
DgAnnounce == LdpDatagram(105, DescriptionPayload(<<1>>))
DgAnnounceNoSize == LdpDatagram(105, DescriptionPayload(<<6>>))
DgBlock0 == LdpDatagram(24, BlockPayload(1, 0, <<97, 98>>))
DgBlock1 == LdpDatagram(24, BlockPayload(1, 1, <<99>>))
DgBlockPast == LdpDatagram(24, BlockPayload(1, 2, <<99>>))
DgBlockShort == LdpDatagram(24, <<0, 0, 0, 1, 0>>)
DgFec == LdpDatagram(255, BlockPayload(1, 0, FecA))

\* a signaling packet, a time packet with a server id, one whose server id
\* is no UTF-8, a datagram of a type nobody registered
DgSignaling == LdpDatagram(66, <<>>)
DgTime == LdpDatagram(129, <<1, 1, 65>>)
DgTimeBad == LdpDatagram(129, <<1, 1, 255>>)
DgUnknown == LdpDatagram(51, <<>>)

\* datagrams LDP() rejects: block 1 with a payload bit flipped, with its
\* last byte missing, and three bytes
DgFlipped == FlipBit(DgBlock1, 8 * ldp_header_len)
DgCut == SubSeq(DgBlock1, 1, Len(DgBlock1) - 1)
DgTiny == <<24, 0, 0>>
BadDatagrams == {DgFlipped, DgCut, DgTiny}

GoodDatagrams ==
    {DgAnnounce, DgAnnounceNoSize, DgBlock0, DgBlock1, DgBlockPast,
     DgBlockShort, DgFec, DgSignaling, DgTime, DgTimeBad, DgUnknown}

\* the OP packets on the air
OPPackets ==
    {SingleOP(d) : d \in GoodDatagrams \cup BadDatagrams}
        \cup {FirstOP(DgBlock1, 8), SecondOP(DgBlock1, 8), SecondOP(DgFlipped, 8)}

\* the frames a program may read: every OP packet behind a carrier header,
\* some without one, and a frame shorter than a carrier header
Frames ==
    {EthHeader \o p : p \in OPPackets}
        \cup {SingleOP(d) : d \in {DgAnnounce, DgBlock0, DgBlockPast, DgFlipped}}
        \cup {<<1, 2, 3>>}

Programs == {"free-outernet.py", "outernet_kiss_file.py"}

InitPipe ==
    /\ frontend \in Programs
    /\ outcome = NoFrame
    /\ deframer = FreshDeframer
    /\ stream = NoStream
    /\ pending = <<>>
    /\ files = <<>>
    /\ last_file = NoLast
    /\ written = {}
    /\ aborted = FALSE
    /\ hung = FALSE
    /\ tried = <<>>
    /\ handled = 0
    /\ ret = None
    /\ sending = NotSending
    /\ l4 = NoDatagram

\* LDP() was called for the frame and raised
Rejected(after) == IF after.parsed THEN after.ldp.raised ELSE FALSE

\* the variables after a frame that left the program as `after`; outcome
\* tells what became of the frame and counts the datagrams LDP() rejected
SetFrame(after) ==
    /\ pending' = after.pending
    /\ SetFS(after.fs)
    /\ ret' = after.ret
    /\ outcome' = [parsed |-> after.parsed,
                   rejected |-> Rejected(after),
                   routed |-> after.routed,
                   rejects |-> outcome.rejects + (IF Rejected(after) THEN 1 ELSE 0)]
    /\ handled' = handled + 1
    /\ UNCHANGED <<sending, l4, frontend, deframer, stream>>

PipeRunning == ~aborted /\ ~hung /\ handled < MaxFrames

ProcessFrame ==
    \E frame \in Frames :
        /\ frontend = "free-outernet.py"
        /\ PipeRunning
        /\ SetFrame(processFrame(pending, FS, frame))

KissFileFrame ==
    \E frame \in Frames :
        /\ frontend = "outernet_kiss_file.py"
        /\ PipeRunning
        /\ SetFrame(kiss_file_frame(pending, FS, frame))

NextPipe == ProcessFrame \/ KissFileFrame

SpecPipe == InitPipe /\ [][NextPipe]_vars

---------------------------------------------------------------------------
(* Claims about the ingestion loops *)

\* C9.  A frame whose defragmented datagram LDP() rejects does not reach the
\* router, leaves the files map, the last-file hint and the written files as
\* they were, and leaves the program running for the next frame.
C9_RejectedIsDropped ==
    [][outcome'.rejected =>
          /\ ~outcome'.routed
          /\ files' = files
          /\ last_file' = last_file
          /\ written' = written
          /\ ~aborted' /\ ~hung'
    ]_vars

\* C9 witness: with a file in progress a datagram was rejected, and the
\* frames after it completed and wrote the file
C9_Witness ==
    /\ outcome.rejects >= 1
    /\ ~outcome.rejected
    /\ outcome.routed
    /\ \E w \in written : w.contents = ContentA
    /\ ~aborted

\* C10.  No frame ends the program: after every sequence of frames no
\* exception has left the ingestion loop and no loop is stuck.
C10_NeverAborts == ~aborted /\ ~hung

---------------------------------------------------------------------------
(* A File object under every order of its method calls: specification       *)
(* SpecFile.  File 1 receives data blocks and the parity blocks of the      *)
(* sender, reconstruct is called at any moment on file 1 and on file 2.     *)

\* the content of the three-block file: blocks "ab", "cd" and "e"
ContentL == <<97, 98, 99, 100, 101>>

\* descriptors with LDPC parity: the three-block and the two-block file with
\* several codes, among them those of N1 > n - k
LdpcDocs ==
    {Doc(<<1>>, <<"l.bin">>, <<Sha256Hex(ContentL)>>, <<5>>, <<2>>, <<fec>>) :
        fec \in {Ldpc(3, 4, 1, <<1>>), Ldpc(3, 5, 1, <<3>>),
                 Ldpc(3, 6, 1, <<1>>), Ldpc(3, 6, 2, <<2>>),
                 Ldpc(3, 5, 3, <<1>>)}}
      \cup
    {Doc(<<1>>, <<"a.txt">>, <<Sha256Hex(ContentA)>>, <<3>>, <<2>>, <<fec>>) :
        fec \in {Ldpc(2, 4, 1, <<>>), Ldpc(2, 3, 3, <<1>>)}}

\* the descriptors of the second file
OtherDocs ==
    {d \in LdpcDocs : d.fec[1] \in {Ldpc(3, 6, 1, <<1>>), Ldpc(2, 4, 1, <<>>),
                                    Ldpc(3, 5, 3, <<1>>)}}

\* fec_params as File.__fec_init_matrix reads them: seed defaults to 1
FecParams(f) ==
    [k |-> f.fec.k, n |-> f.fec.n, N1 |-> f.fec.N1,
     seed |-> IF f.fec.seed = <<>> THEN 1 ELSE f.fec.seed[1]]

\* the content the sender splits for the file announced as f, and its block i
Original(f) == IF f.size = Len(ContentL) THEN ContentL ELSE ContentA
OriginalBlock(f, i) ==
    Slice(Original(f), f.block_size * i, f.block_size * (i + 1))

\* block i of the sender padded to block_size with 0xff
PaddedBlock(f, i) ==
    OriginalBlock(f, i) \o Repeat(255, f.block_size - Len(OriginalBlock(f, i)))

RECURSIVE ParityOver(_, _, _)
\* the XOR of the padded blocks of the columns in row, from accum on
ParityOver(f, row, accum) ==
    IF row = <<>> THEN accum
    ELSE ParityOver(f, Tail(row),
                    [i \in 1..f.block_size |->
                        BitXor(accum[i], PaddedBlock(f, Head(row))[i])])

\* the parity block the sender computes for a row of the matrix
ParityBlock(f, row) == ParityOver(f, row, Repeat(0, f.block_size))

InitFile ==
    /\ \E d1 \in LdpcDocs : \E d2 \in OtherDocs :
          files = SetKey(SetKey(<<>>, 1, File(d1).file), 2, File(d2).file)
    /\ tried = <<>>
    /\ aborted = FALSE
    /\ hung = FALSE
    /\ last_file = NoLast
    /\ written = {}
    /\ handled = 0
    /\ pending = <<>>
    /\ ret = None
    /\ sending = NotSending
    /\ l4 = NoDatagram
    /\ frontend = "none"
    /\ outcome = NoFrame
    /\ deframer = FreshDeframer
    /\ stream = NoStream

NotFile == <<last_file, written, handled, pending, ret, sending, l4, frontend,
             outcome, deframer, stream>>

\* File.push_block on file 1: the sender's block n, or an empty block
PushBlock ==
    \E n \in 0..(files[1].blocks - 1) : \E empty \in BOOLEAN :
        /\ ~aborted /\ ~hung
        /\ files' = [files EXCEPT ![1] =
                        push_block(@, IF empty THEN <<>> ELSE OriginalBlock(@, n),
                                   n).file]
        /\ tried' = <<>>
        /\ UNCHANGED <<aborted, hung>>
        /\ UNCHANGED NotFile

\* the rows of the sender's matrix, when the sender's construction ends
SenderRows(built) == IF built.hang THEN <<>> ELSE built.matrix

\* File.push_fec on file 1: the sender's parity block of row r
PushFecOf(rows) ==
    \E r \in 1..Len(rows) :
        /\ files' = [files EXCEPT ![1] =
                        push_fec(@, ParityBlock(@, rows[r]), r - 1)]
        /\ tried' = <<>>
        /\ UNCHANGED <<aborted, hung>>
        /\ UNCHANGED NotFile

PushFec ==
    /\ ~aborted /\ ~hung
    /\ PushFecOf(SenderRows(fec_init_matrix(FecParams(files[1]))))

\* the variables after File.reconstruct on file id, which did r and filled
\* the slots `filled`
SetCalled(id, r) ==
    /\ files' = [files EXCEPT ![id] = r.file]
    /\ tried' = <<[id |-> id, status |-> r.status,
                   filled |-> {i \in 0..(Len(r.file.data) - 1) :
                                 /\ Falsy(files[id].data[i + 1])
                                 /\ ~Falsy(r.file.data[i + 1])}]>>
    /\ aborted' = (r.status = "raise")
    /\ hung' = (r.status = "hang")
    /\ UNCHANGED NotFile

\* File.reconstruct
Reconstruct ==
    \E id \in DOMAIN files :
        /\ ~aborted /\ ~hung
        /\ SetCalled(id, reconstruct(files[id]))

NextFile == PushBlock \/ PushFec \/ Reconstruct

SpecFile == InitFile /\ [][NextFile]_vars

---------------------------------------------------------------------------
(* Claims about the LDPC repair of a file *)

\* the step is a call of File.reconstruct on file id that returned or raised
CallOn(id) ==
    /\ tried' # <<>>
    /\ tried'[1].id = id
    /\ tried'[1].status # "hang"

\* every data slot of f is None or holds the sender's block
OnlyOriginal(f) ==
    \A i \in 0..(f.blocks - 1) :
        f.data[i + 1] = None \/ f.data[i + 1] = OriginalBlock(f, i)

\* every parity block received by f is the XOR of the sender's padded blocks
\* of its row of matrix
OnlySenderParity(f, matrix) ==
    /\ Len(f.fec_blocks) <= Len(matrix)
    /\ \A r \in 1..Len(f.fec_blocks) :
          f.fec_blocks[r] = None \/ f.fec_blocks[r] = ParityBlock(f, matrix[r])

\* the columns of row whose data slot of f is empty
EmptyIn(f, row) == {c \in {row[j] : j \in 1..Len(row)} : Falsy(f.data[c + 1])}

\* row r of matrix has its parity block in f and exactly one empty data slot
OneErasure(f, matrix, r) ==
    /\ r <= Len(f.fec_blocks)
    /\ ~Falsy(f.fec_blocks[r])
    /\ Cardinality(EmptyIn(f, matrix[r])) = 1

\* C12 (LDPC single-erasure repair).  When the data slots of a file hold the
\* sender's blocks or nothing and its parity blocks are the XOR of the
\* padded data blocks of their rows, a call of reconstruct fills, for every
\* received row with exactly one empty data slot, that slot with the
\* sender's block, of length min(block_size, size - block_size * i).
C12_SingleErasureRepair ==
    [][(CallOn(1) /\ OnlyOriginal(files[1])
            /\ OnlySenderParity(files[1], files'[1].fec_matrix))
        => \A r \in 1..Len(files'[1].fec_matrix) :
              OneErasure(files[1], files'[1].fec_matrix, r)
              => \A m \in EmptyIn(files[1], files'[1].fec_matrix[r]) :
                    /\ files'[1].data[m + 1] = OriginalBlock(files[1], m)
                    /\ Len(files'[1].data[m + 1]) =
                          Min(files[1].block_size,
                              files[1].size - files[1].block_size * m)
      ]_vars

\* C12 witness: a call of reconstruct on the three-block file has filled the
\* slot of the short last block and returned the contents
C12_Witness ==
    /\ tried # <<>>
    /\ tried[1].id = 1
    /\ tried[1].status = "ok"
    /\ 2 \in tried[1].filled
    /\ files[1].data = <<<<97, 98>>, <<99, 100>>, <<101>>>>

\* the number of empty data slots of f
EmptySlots(f) == Cardinality({i \in 1..Len(f.data) : Falsy(f.data[i])})

RECURSIVE PassesFill(_)
\* pass `pass` of the while loop, started in st, has filled a slot and so do
\* the passes after it, or it has filled none (blocks_repaired = 0, on which
\* the method returns)
PassFills(st, pass) ==
    IF pass.raised THEN TRUE
    ELSE IF pass.blocks_repaired = 0
         THEN pass.file = st.file
         ELSE EmptySlots(pass.file) < EmptySlots(st.file) /\ PassesFill(pass)

\* every pass of the while loop from st on fills a slot or ends the attempt
PassesFill(st) ==
    IF st.blocks_remain <= 0 THEN TRUE
    ELSE PassFills(st, RepairPass([st EXCEPT !.blocks_repaired = 0],
                                  st.fec_indices))

\* the loop has left f with every data slot filled, or with no received row
\* that has exactly one empty data column
ExitOk(f) ==
    \/ CountNone(f.data) = 0
    \/ \A r \in 1..Len(f.fec_matrix) : ~OneErasure(f, f.fec_matrix, r)

\* C13.  The repair iteration of reconstruct terminates: every pass fills at
\* least one empty data slot or ends the attempt with a stall, and when the
\* loop is left either all data slots are filled or no received FEC row has
\* exactly one empty data column.
C13_RepairTerminates ==
    [][\A id \in DOMAIN files :
          CallOn(id) =>
              /\ PassesFill(LoopStart(files[id], files'[id].fec_matrix))
              /\ ExitOk(files'[id])
      ]_vars

\* C13, the part that holds: every pass fills a slot or ends the attempt
C13_PassesFill ==
    [][\A id \in DOMAIN files :
          CallOn(id) => PassesFill(LoopStart(files[id], files'[id].fec_matrix))
      ]_vars

Distinct(row) ==
    \A a \in 1..Len(row) : \A b \in 1..Len(row) : row[a] = row[b] => a = b

\* C17 (LDPC row degree).  A matrix, once built, has n - k rows, each of at
\* least two column indices, pairwise distinct and within 0..k-1.
C17_RowDegree ==
    \A id \in DOMAIN files :
        files[id].fec_matrix # <<>> =>
            /\ Len(files[id].fec_matrix) = files[id].fec.n - files[id].fec.k
            /\ \A r \in 1..Len(files[id].fec_matrix) :
                  /\ Len(files[id].fec_matrix[r]) >= 2
                  /\ Distinct(files[id].fec_matrix[r])
                  /\ \A j \in 1..Len(files[id].fec_matrix[r]) :
                        files[id].fec_matrix[r][j] \in 0..(files[id].fec.k - 1)

\* C17 witness: the matrix of a code with fewer than two 1s per row in the
\* main loop (k * N1 = 3 for 3 rows) has been built
C17_Witness ==
    /\ files[1].fec = Ldpc(3, 6, 1, <<1>>)
    /\ files[1].fec_matrix # <<>>
    /\ tried # <<>>
    /\ tried[1].id = 1

---------------------------------------------------------------------------
(* More claims about the file service (specification Spec) *)

\* scenario S4 as delivered: the two-block file announced with fec
\* "ldpc:k=2,n=3,N1=3,seed=1" holds data block 1 and FEC block 0
S4Delivered(f) ==
    /\ f.fec = Ldpc(2, 3, 3, <<1>>)
    /\ GoodDescriptor(f)
    /\ f.data = <<None, <<99>>>>
    /\ f.fec_blocks = <<FecA>>

\* C14 (scenario S4).  When reconstruct is called on the file of scenario S4,
\* holding data block 1 and FEC block 0, data block 0 is filled by XOR and
\* the file, whose digest matches, is written.
C14_S4Reconstructs ==
    [][(/\ 1 \in DOMAIN files
        /\ S4Delivered(files[1])
        /\ \E i \in 1..Len(tried') : tried'[i].id = 1)
       => /\ ~hung' /\ ~aborted'
          /\ 1 \notin DOMAIN files'
          /\ \E e \in written' :
                /\ e.file.id = 1
                /\ e.file.data[1] = <<97, 98>>
                /\ e.contents = ContentA
      ]_vars

\* the packets of scenario S4 have been handled and nothing has called
\* reconstruct: the file waits in the map
C14_S4Waits ==
    /\ 1 \in DOMAIN files
    /\ S4Delivered(files[1])
    /\ tried = <<>>
    /\ ~hung

\* the file service holds the same files, last-file hint and written files
\* after `twice` as after `once`, and the program still runs
SameService(once, twice) ==
    /\ twice.files = once.files
    /\ twice.last_file = once.last_file
    /\ twice.written = once.written
    /\ ~twice.aborted /\ ~twice.hung

\* handling payload again after `once`, the state its first handling left,
\* changes nothing; there is no second handling when the first ended the
\* program
HandledAgain(once, payload) ==
    IF once.aborted \/ once.hung THEN TRUE
    ELSE SameService(once, block_packet([once EXCEPT !.tried = <<>>], payload))

\* C15 (idempotent block push).  In every reachable state of the file
\* service, handling a data-block packet twice in a row leaves the files map
\* (data slots, FEC blocks), the last-file hint and the written files as
\* handling it once does.
C15_IdempotentPush ==
    (~aborted /\ ~hung) =>
        \A payload \in BlockPayloads :
            HandledAgain(block_packet(FS, payload), payload)

\* C15 witness: the block just handled filled the last slot of file 1, the
\* attempt failed on the digest, and handling the same packet again, which
\* calls reconstruct again, leaves the state as it is
C15_Witness ==
    /\ ~aborted /\ ~hung
    /\ 1 \in DOMAIN files
    /\ last_file = LiveLast(1)
    /\ LastCallFailed(tried, 1)
    /\ files[1].data = <<<<97, 98>>, <<100>>>>
    /\ block_packet(FS, BlockPayload(1, 1, <<100>>)).tried
          = <<[id |-> 1, status |-> "fail"]>>
    /\ SameService(FS, block_packet(FS, BlockPayload(1, 1, <<100>>)))

\* the file id, block number and block of a data-block payload
PayloadFile(payload) == BE(Slice(payload, 0, 4))
PayloadNumber(payload) == BE(Slice(payload, 4, 6))
PayloadBlock(payload) == SliceFrom(payload, block_header_len)

\* first situation: the packet pushes a block to file id, known to the
\* service, and the push leaves every data slot of the file filled
AfterFillingPush(payload, id) ==
    /\ PayloadFile(payload) = id
    /\ id \in DOMAIN files
    /\ PayloadNumber(payload) < files[id].blocks
    /\ reconstructable(push_block(files[id], PayloadBlock(payload),
                                  PayloadNumber(payload)).file)

\* second situation: the packet is a data block of another known file while
\* file id is the tracked last file and is maybe-reconstructable
CarouselMovedOn(payload, id) ==
    /\ PayloadFile(payload) # id
    /\ PayloadFile(payload) \in DOMAIN files
    /\ last_file = LiveLast(id)
    /\ maybe_reconstructable(files[id])

\* C18.  reconstruct is called on a file only when a data-block packet has
\* filled the last empty slot of that file, or when a data block of another
\* known file arrives while the file is the tracked last file and is
\* maybe-reconstructable; description and FEC packets call it on no file.
C18_AttemptSituations ==
    [][\/ tried' = <<>>
       \/ \E payload \in BlockPayloads :
             /\ SetFS(block_packet(FS, payload))
             /\ \A i \in 1..Len(tried') :
                   \/ AfterFillingPush(payload, tried'[i].id)
                   \/ CarouselMovedOn(payload, tried'[i].id)
      ]_vars

\* C19.  Whenever the last-file hint is set, the file it designates is the
\* entry the files map holds under its id: never a file that was written and
\* removed, never one that a later announcement of the id has superseded.
C19_HintIsMapEntry ==
    last_file # NoLast =>
        /\ last_file.kind = "live"
        /\ last_file.id \in DOMAIN files

\* the hint still refers to a File object that the map holds no more, and
\* the decision to retry is taken on that object: it counts as
\* maybe-reconstructable while the entry of its id has every slot empty
C19_StaleHint ==
    /\ ~aborted /\ ~hung
    /\ last_file.kind = "detached"
    /\ last_file.obj.id \in DOMAIN files
    /\ maybe_reconstructable(last_file.obj)
    /\ ~maybe_reconstructable(files[last_file.obj.id])

\* the XML body of a description payload
PayloadXml(payload) ==
    SliceFrom(payload, 2 + BE(Slice(payload, 0, 2)) + signature_len)

\* f is a file in progress as announced by the element tree doc, with every
\* data slot empty and no FEC block
FreshFrom(f, doc) ==
    /\ f.id = doc.id[1]
    /\ f.path = doc.path[1]
    /\ f.hash = doc.hash[1]
    /\ f.size = doc.size[1]
    /\ f.block_size = doc.block_size[1]
    /\ f.blocks = CeilDiv(doc.size[1], doc.block_size[1])
    /\ f.fec = (IF doc.fec = <<>> THEN NoFec ELSE doc.fec[1])
    /\ f.data = [i \in 1..f.blocks |-> None]
    /\ f.fec_blocks = <<>>
    /\ f.fec_matrix = <<>>

\* C20 (announcement replaces).  After a description packet for id X is
\* handled, the map entry of X is a fresh file built from the new
\* descriptor, with every data slot empty and no FEC blocks, whatever the
\* map held for X before; the map holds the other ids it held, unchanged.
C20_AnnouncementReplaces ==
    [][\A payload \in DescriptionPayloads :
          (SetFS(description_packet(FS, payload)) /\ ~aborted')
          => /\ XmlParse(PayloadXml(payload)).ok
             /\ XmlParse(PayloadXml(payload)).id[1] \in DOMAIN files'
             /\ FreshFrom(files'[XmlParse(PayloadXml(payload)).id[1]],
                          XmlParse(PayloadXml(payload)))
             /\ DOMAIN files' =
                   DOMAIN files \cup {XmlParse(PayloadXml(payload)).id[1]}
             /\ \A y \in DOMAIN files \ {XmlParse(PayloadXml(payload)).id[1]} :
                   files'[y] = files[y]
      ]_vars

\* C20 witness: file 1, which held a data block and a FEC block, has been
\* announced again: its entry is fresh, and file 2 keeps its entry
C20_Witness ==
    /\ ~aborted
    /\ 1 \in DOMAIN files
    /\ files[1].data = <<None, None>>
    /\ files[1].fec_blocks = <<>>
    /\ last_file.kind = "detached"
    /\ last_file.obj.id = 1
    /\ last_file.obj.data[1] = <<97, 98>>
    /\ last_file.obj.fec_blocks # <<>>
    /\ 2 \in DOMAIN files

\* min(self.block_size, self.size - self.block_size * index)
unpadded_size(f, index) == Min(f.block_size, f.size - f.block_size * index)

\* C21 (slot length).  In every reachable state of a file in progress, each
\* data slot i is empty or holds exactly min(block_size, size - block_size*i)
\* bytes.
C21_SlotLength ==
    \A id \in DOMAIN files :
        \A i \in 1..Len(files[id].data) :
            \/ files[id].data[i] = None
            \/ Len(files[id].data[i]) = unpadded_size(files[id], i - 1)

\* the FEC list after slot n (from 0) of the list old has taken block: as
\* long as the longer of old and n + 1 slots, the slots created below n empty
FecListAfter(old, n, block) ==
    [i \in 1..(IF Len(old) > n + 1 THEN Len(old) ELSE n + 1) |->
        IF i = n + 1 THEN block
        ELSE IF i <= Len(old) THEN old[i]
        ELSE None]

\* C23 (FEC block push).  After a FEC-block packet (file_id, n, b) for a
\* known file, FEC slot n holds b, the FEC list has length
\* max(previous length, n + 1) with the new slots below n empty, and every
\* other FEC slot, every data slot, the last-file hint and all other files
\* are unchanged; for an unknown file_id nothing changes.
C23_FecPush ==
    [][\A payload \in FecPayloads :
          SetFS(fec_packet(FS, payload))
          => /\ ~aborted' /\ ~hung'
             /\ last_file' = last_file
             /\ written' = written
             /\ DOMAIN files' = DOMAIN files
             /\ \A y \in DOMAIN files \ {PayloadFile(payload)} :
                   files'[y] = files[y]
             /\ PayloadFile(payload) \in DOMAIN files =>
                   /\ files'[PayloadFile(payload)].fec_blocks =
                         FecListAfter(files[PayloadFile(payload)].fec_blocks,
                                      PayloadNumber(payload),
                                      PayloadBlock(payload))
                   /\ files'[PayloadFile(payload)] =
                         [files[PayloadFile(payload)] EXCEPT !.fec_blocks =
                             files'[PayloadFile(payload)].fec_blocks]
      ]_vars

\* C23 witness: file 1 holds data block 0 and is the last file; its FEC
\* slot 1 was written first (slot 0 created empty), then slot 0 took FecA
\* and after it 00 00
C23_Witness ==
    /\ ~aborted
    /\ 1 \in DOMAIN files
    /\ files[1].fec_blocks = <<<<0, 0>>, FecA>>
    /\ files[1].data = <<<<97, 98>>, None>>
    /\ last_file = LiveLast(1)
    /\ handled = 5

\* every data slot of f holds a block, and the blocks joined have the
\* announced size
Assembled(f) ==
    /\ \A i \in 1..Len(f.data) : f.data[i] # None
    /\ Len(Join(f.data)) = f.size

\* C24.  The hash check compares the SHA-256 hex digest of the assembled
\* content with the descriptor's hash without regard to case: an attempt on
\* a file whose blocks are all there and have the announced size fails only
\* if the two differ as hex numbers, so a descriptor hash in upper-case hex
\* that denotes the digest lets the file be written.
C24_HashCaseInsensitive ==
    \A id \in DOMAIN files :
        (~aborted /\ ~hung /\ LastCallFailed(tried, id) /\ Assembled(files[id]))
        => LowerHex(Sha256Hex(Join(files[id].data))) # LowerHex(files[id].hash)

\* an attempt on an assembled file failed where the descriptor's hash is the
\* digest, character by character different
C24_ExactMismatch ==
    \A id \in DOMAIN files :
        (~aborted /\ ~hung /\ LastCallFailed(tried, id) /\ Assembled(files[id]))
        => Sha256Hex(Join(files[id].data)) # files[id].hash

---------------------------------------------------------------------------
(* More claims about the File object (specification SpecFile) *)

\* the call of reconstruct on file id did not return
NeverReturned(id) ==
    /\ hung
    /\ \E i \in 1..Len(tried) : tried[i].id = id /\ tried[i].status = "hang"

\* the parameter sets the construction is claimed to terminate for
TerminatingParams(params) ==
    /\ params.k >= 2
    /\ params.n > params.k
    /\ params.N1 >= 1
    /\ params.seed \in 1..(2147483647 - 1)

\* C26.  The construction of the LDPC matrix terminates for every parameter
\* set with k >= 2, n > k, N1 >= 1 and seed in 1..2^31-2: no call of
\* reconstruct on a file with such a code is stuck in a rejection loop.
C26_ConstructionTerminates ==
    \A id \in DOMAIN files :
        NeverReturned(id) => ~TerminatingParams(FecParams(files[id]))

\* a call is stuck only for a code that asks for more 1s in a column than
\* the matrix has rows
C26_StuckOnlyAboveRows ==
    \A id \in DOMAIN files :
        NeverReturned(id) => files[id].fec.N1 > files[id].fec.n - files[id].fec.k

\* every code of at most n - k 1s per column has had its matrix built
C26_OthersBuilt ==
    /\ files[1].fec.N1 <= files[1].fec.n - files[1].fec.k
    /\ files[1].fec_matrix # <<>>
    /\ ~hung

---------------------------------------------------------------------------
(* More claims about the ingestion loops (specification SpecPipe) *)

\* the running program handles the frame
Ingested(frame) ==
    IF frontend = "free-outernet.py"
    THEN SetFrame(processFrame(pending, FS, frame))
    ELSE SetFrame(kiss_file_frame(pending, FS, frame))

\* the frames that begin with the 14 bytes of a carrier header
CarrierFrames ==
    {frame \in Frames :
        /\ Len(frame) >= eth_header_len
        /\ Slice(frame, 0, eth_header_len) = EthHeader}

\* C25.  In both front ends the 14-byte carrier header is stripped before
\* the bytes reach the L3 parser: a carrier frame is handled as the OP
\* packet made of the bytes behind its header, the same in free-outernet.py
\* and in outernet_kiss_file.py.
C25_HeaderStripped ==
    [][\A frame \in CarrierFrames :
          Ingested(frame)
          => SetFrame(FrameOP(pending, FS,
                              OP(SliceFrom(frame, eth_header_len))))
      ]_vars

\* the same for the KISS-file script alone
C25_KissFileStrips ==
    [][\A frame \in CarrierFrames :
          (frontend = "outernet_kiss_file.py" /\ Ingested(frame))
          => SetFrame(FrameOP(pending, FS,
                              OP(SliceFrom(frame, eth_header_len))))
      ]_vars

\* free-outernet.py has read four frames, every one with a carrier header;
\* the bytes of the header were parsed as OP headers, no datagram came
\* out of the defragmenter and nothing was announced
C25_CarrierFramesLost ==
    /\ frontend = "free-outernet.py"
    /\ handled = MaxFrames
    /\ 255 \in DOMAIN pending
    /\ Carousel \notin DOMAIN pending
    /\ files = <<>>
    /\ ~aborted

---------------------------------------------------------------------------
(* More claims about the defragmenter (specification SpecDefrag) *)

\* the partial of the packet's carousel as push leaves it before it tests
\* completeness: lines 160-167 for a data fragment, 175-177 for a FEC one
StoredBy(pend, packet) ==
    IF packet.fragment_type = FragFec
    THEN FecStore(PendingGet(pend, packet.carousel_id), packet)
    ELSE DataAfterReset(PendingGet(pend, packet.carousel_id), packet)

\* push(packet) tests completeness and finds the partial complete
CompletedBy(pend, packet) ==
    /\ IF packet.fragment_type = FragFec
       THEN ~FalsyInt(PendingGet(pend, packet.carousel_id).frag_size)
       ELSE packet.fragment_type = FragLast /\ packet.fragment_index # 0
    /\ complete(StoredBy(pend, packet))

\* some data fragment below frag_count is not in the partial
MissingData(ldp) ==
    \E i \in 0..(ldp.frag_count[1] - 1) : i \notin DOMAIN ldp.fragments

\* the partial does not hold all k data fragments, and the number of shares
\* it holds differs from k
ShareCountOff(ldp) ==
    /\ MissingData(ldp)
    /\ Cardinality(DOMAIN ldp.fragments) # ldp.frag_count[1]

\* C22.  When a push completes a partial that does not hold all k data
\* fragments and whose number of stored shares differs from k, the push
\* returns no datagram, raises nothing, and leaves the partial of the
\* carousel as reset() makes it.
C22_ShareCountMismatch ==
    [][\A packet \in NoisePackets :
          (/\ SetPushed(push(pending, packet))
           /\ CompletedBy(pending, packet)
           /\ ShareCountOff(StoredBy(pending, packet)))
          => /\ ret' = None
             /\ ~aborted'
             /\ pending'[Carousel] = FreshLDP
      ]_vars

\* the same for the partials that decode() takes to the test of
\* len(sharenums): fewer than k data fragments counted, and a FEC fragment
\* has latched fec_count
C22_MismatchAfterFec ==
    [][\A packet \in NoisePackets :
          (/\ SetPushed(push(pending, packet))
           /\ CompletedBy(pending, packet)
           /\ ShareCountOff(StoredBy(pending, packet))
           /\ StoredBy(pending, packet).frag_recv
                  # StoredBy(pending, packet).frag_count[1]
           /\ StoredBy(pending, packet).fec_count # NoInt)
          => /\ ret' = None
             /\ ~aborted'
             /\ pending'[Carousel] = FreshLDP
      ]_vars

\* the partial holds fragments 1, 2 and 3, all data, with frag_count 2 and
\* no FEC count: the push that completed it raised in decode()
C22_RaisedInDecode ==
    /\ aborted
    /\ Carousel \in DOMAIN pending
    /\ pending[Carousel].frag_count = <<2>>
    /\ pending[Carousel].fec_count = NoInt
    /\ DOMAIN pending[Carousel].fragments = {1, 2}

\* of a datagram of three data fragments, data 0, FEC 0, data 1 and FEC 1
\* were pushed in this order into a fresh partial; the fourth push found
\* four shares, returned nothing and reset the partial
C22_DiscardedAfterFec ==
    /\ ~aborted
    /\ sending.on
    /\ sending.k = 3
    /\ sending.sent = <<0, 3, 1, 4>>
    /\ sending.outs = <<None, None, None, None>>
    /\ pending[Carousel] = FreshLDP

---------------------------------------------------------------------------
(* Two carousels side by side: specification SpecCarousels.  Packets of two *)
(* carousel ids arrive in any interleaving.                                  *)

\* packets pushed in one behaviour
MaxInterleaved == 5

\* the second carousel
OtherCarousel == 9

OtherOP(packet) == [packet EXCEPT !.carousel_id = OtherCarousel]

\* what arrives on the first carousel: the shares of a datagram of two data
\* fragments, fragments of an earlier datagram of two and of one of three, a
\* single-fragment datagram and a packet of unknown type
FirstPackets ==
    {ShareOP(1, 2, s) : s \in 0..3}
        \cup {ShareOP(2, 2, 1), ShareOP(2, 3, 1), ShareOP(2, 3, 2),
              ShareOP(2, 1, 0), UnknownOP}

\* what arrives on the second carousel: the same kinds of another datagram
OtherPackets ==
    {OtherOP(ShareOP(2, 2, s)) : s \in 0..2}
        \cup {OtherOP(ShareOP(1, 1, 0)), OtherOP(UnknownOP)}

ArriveFirst ==
    \E packet \in FirstPackets :
        /\ ~aborted
        /\ handled < MaxInterleaved
        /\ SetPushed(push(pending, packet))
        /\ handled' = handled + 1
        /\ UNCHANGED <<sending, files, last_file, written, hung, tried, l4, frontend,
                       outcome, deframer, stream>>

ArriveOther ==
    \E packet \in OtherPackets :
        /\ ~aborted
        /\ handled < MaxInterleaved
        /\ SetPushed(push(pending, packet))
        /\ handled' = handled + 1
        /\ UNCHANGED <<sending, files, last_file, written, hung, tried, l4, frontend,
                       outcome, deframer, stream>>

NextCarousels == ArriveFirst \/ ArriveOther

SpecCarousels == InitDefrag /\ [][NextCarousels]_vars

\* the defragmenter that holds the partial of carousel c and no other
OnlyCarousel(pend, c) == [x \in DOMAIN pend \cap {c} |-> pend[x]]

\* push leaves the partial of the packet's carousel as it was
PassesBy(packet) ==
    \/ packet.fragment_type = FragLast /\ packet.fragment_index = 0
    \/ packet.fragment_type \notin {FragLast, FragData, FragFec}

\* C28 (per-carousel isolation).  A push of a packet of carousel c leaves the
\* partial of every other carousel unchanged; what it returns, whether it
\* raises, and the partial of c after it are those of the same push on a
\* defragmenter that holds the partial of c alone; a single-fragment packet
\* (type 0x3c, index 0) and a packet of unknown type leave the partial of c
\* unchanged too.
C28_CarouselIsolation ==
    [][\A packet \in FirstPackets \cup OtherPackets :
          SetPushed(push(pending, packet))
          => /\ \A c \in (DOMAIN pending \cup DOMAIN pending')
                            \ {packet.carousel_id} :
                    PendingGet(pending', c) = PendingGet(pending, c)
             /\ ret' = push(OnlyCarousel(pending, packet.carousel_id), packet).ret
             /\ aborted' =
                   push(OnlyCarousel(pending, packet.carousel_id), packet).raised
             /\ PendingGet(pending', packet.carousel_id) =
                   PendingGet(
                       push(OnlyCarousel(pending, packet.carousel_id),
                            packet).pending,
                       packet.carousel_id)
             /\ PassesBy(packet) =>
                   PendingGet(pending', packet.carousel_id) =
                       PendingGet(pending, packet.carousel_id)
      ]_vars

\* C28 witness: the datagram of the first carousel came out of its two
\* fragments and a single-fragment datagram passed on the second carousel,
\* whose partial holds the first fragment of its own datagram as its own
\* packet left it
C28_Witness ==
    /\ ~aborted
    /\ handled = MaxInterleaved
    /\ ret = Payload(1, 2)
    /\ Carousel \in DOMAIN pending
    /\ pending[Carousel] = FreshLDP
    /\ OtherCarousel \in DOMAIN pending
    /\ pending[OtherCarousel] = DataStore(FreshLDP, OtherOP(ShareOP(2, 2, 0)))

---------------------------------------------------------------------------
(* The KISS deframer on streams made by a framer: specification SpecKiss.   *)
(* A stream of frames is framed and escaped, then pushed in chunks of any   *)
(* sizes.                                                                    *)

\* frames in one stream
MaxKissFrames == 2
\* bytes in one call of push
MaxChunk == 3

\* the frames of the model, type byte first: data frames of port 0 and 1,
\* frames of type 1 and 0xdb (low nibble not zero), a frame that is its type
\* byte alone, data with FEND, FESC, TFEND and TFESC in it, the type 0xc0
KissFrames ==
    { <<0>>, <<0, 65>>, <<16, 66>>, <<1, 65>>, <<FESC, 65>>, <<FEND, 65>>,
      <<0, FEND>>, <<0, FESC, TFEND>>, <<0, TFEND, TFESC>>, <<0, 65, FESC>> }

\* the framer: FEND -> FESC TFEND and FESC -> FESC TFESC within a frame, a
\* FEND after every frame and, with lead, one before it
RECURSIVE Escaped(_)
Escaped(bytes) ==
    IF bytes = <<>> THEN <<>>
    ELSE (IF Head(bytes) = FEND THEN <<FESC, TFEND>>
          ELSE IF Head(bytes) = FESC THEN <<FESC, TFESC>>
          ELSE <<Head(bytes)>>) \o Escaped(Tail(bytes))

RECURSIVE StreamOf(_, _)
StreamOf(frames, lead) ==
    IF frames = <<>> THEN <<>>
    ELSE (IF lead THEN <<FEND>> ELSE <<>>) \o Escaped(Head(frames)) \o <<FEND>>
            \o StreamOf(Tail(frames), lead)

InitKiss ==
    /\ \E n \in 1..MaxKissFrames : \E frames \in [1..n -> KissFrames] :
       \E lead \in BOOLEAN :
          stream = [frames |-> frames, rest |-> StreamOf(frames, lead),
                    read |-> <<>>, out |-> <<>>, cut |-> FALSE]
    /\ deframer = FreshDeframer
    /\ files = <<>>
    /\ last_file = NoLast
    /\ written = {}
    /\ aborted = FALSE
    /\ hung = FALSE
    /\ tried = <<>>
    /\ handled = 0
    /\ pending = <<>>
    /\ ret = None
    /\ sending = NotSending
    /\ l4 = NoDatagram
    /\ frontend = "none"
    /\ outcome = NoFrame

\* the variables after push(data) gave r; cut tells that some call returned
\* between FESC and the byte it escapes
SetDeframed(r, data) ==
    /\ deframer' = [pdu |-> r.pdu, transpose |-> r.transpose]
    /\ stream' = [stream EXCEPT
                    !.rest = SubSeq(@, Len(data) + 1, Len(@)),
                    !.read = @ \o data,
                    !.out = @ \o r.pdus,
                    !.cut = IF r.transpose THEN TRUE ELSE @]
    /\ UNCHANGED <<files, last_file, written, pending, ret, sending, l4,
                   frontend, outcome, aborted, hung, tried, handled>>

\* KISSDeframer.push on the next bytes of the stream
KissPush ==
    \E n \in 1..MaxChunk :
        /\ n <= Len(stream.rest)
        /\ SetDeframed(kiss_push(deframer, SubSeq(stream.rest, 1, n)),
                       SubSeq(stream.rest, 1, n))

NextKiss == KissPush

SpecKiss == InitKiss /\ [][NextKiss]_vars

\* the frames a stream of `frames` is to give: those whose type byte has a
\* zero low nibble, in order, without the type byte
Emitted(frames) ==
    [i \in 1..Len(SelectSeq(frames, LAMBDA f : f[1] % 16 = 0)) |->
        Tail(SelectSeq(frames, LAMBDA f : f[1] % 16 = 0)[i])]

IsPrefix(a, b) == Len(a) <= Len(b) /\ SubSeq(b, 1, Len(a)) = a

\* C27 (KISS deframing).  For a stream of FEND-delimited, escaped frames the
\* calls of push return, one after the other, exactly the frames whose first
\* byte has a zero low nibble, in stream order, unescaped and without the
\* first byte; and what they have returned so far is what one call on all the
\* bytes pushed so far returns, however the bytes were split.
C27_KissDeframing ==
    /\ IsPrefix(stream.out, Emitted(stream.frames))
    /\ stream.rest = <<>> => stream.out = Emitted(stream.frames)
    /\ stream.out = kiss_push(FreshDeframer, stream.read).pdus

\* C27 witness: a stream of two frames has been read to its end in calls one
\* of which returned between FESC and the byte it escapes; one frame came
\* out, with a FEND in it, and one was dropped for its type
C27_Witness ==
    /\ stream.rest = <<>>
    /\ stream.cut
    /\ Len(stream.frames) = 2
    /\ Len(stream.out) = 1
    /\ InSeq(FEND, stream.out[1])

====
